---- MODULE Spec2Model ----
(***************************************************************************)
(* The message/conversation persistence queue of the chat client          *)
(* (tos-chat/src/services/messageQueue.ts), the Remote Writer it calls     *)
(* (messagePersistence.ts) and the server's session store                  *)
(* (services/session.js), as state machines.                               *)
(*                                                                         *)
(* JavaScript runs one handler at a time; a handler is suspended only at   *)
(* an await.  Every action below is one such run-to-completion piece: a    *)
(* public method, an event listener, a timer callback, or the part of the  *)
(* drain pass between two awaits.                                          *)
(***************************************************************************)
EXTENDS Integers, Sequences, FiniteSets, Bags, TLC

\* ------------------------------------------------------------------ bounds
\* Messages / conversation updates ever enqueued in a run of Spec.
MaxMsgs == 2
MaxUpdates == 1
\* Messages enqueued in a run of SpecWriter.
WriterMsgs == 1
\* Messages and updates enqueued, and Remote Writer failures, in a run of
\* SpecBatch.
BatchMsgs == 6
BatchUpdates == 6
BatchFailures == 1
\* Simulated restarts (page reloads) in a run of SpecRestart.
MaxRestarts == 1
OfflineMsgs == 3
\* Messages and updates enqueued in a run of SpecLive.
LiveMsgs == 2
LiveUpdates == 1

\* Conversation updates enqueued in a run of SpecUpdates.
QueuedUpdates == 2

\* The last instant of the browser's clock in a run of SpecDirect, in ms.
MaxDirectTime == 9000

\* Messages and conversation updates enqueued in a run of SpecTokens.
TokenMsgs == 2
TokenUpdates == 2
RestartMsgs == 2

\* Sessions ever created and the last instant of the clock in a run of
\* SpecSession; the configured SESSION_TIMEOUT_MS.
MaxSessions == 2
MaxTime == 5
sessionTimeout == 2

\* Async calls of the controller started, and the last instant of the
\* browser's clock, in a run of SpecController or SpecSwitch.
MaxCalls == 3
MaxClientTime == 1

\* Persist calls the controller turns away in a run.
MaxRejected == 1

\* --------------------------------------------------------- program constants
maxRetries == 3
batchSize == 5
retryAttempts == 3
retryDelay == 1000

\* ------------------------------------------------------------------- values
\* JavaScript values, tagged with their type: undefined, a number, an object.
Undefined == [type |-> "undefined", v |-> 0]
Number(n) == [type |-> "number", v |-> n]
Object(x) == [type |-> "object", v |-> x]
NoToken == "none"
Null == [type |-> "null"]
NoConversation == 0
NoError == "null"
\* The conversations of the signed-in user in the remote store (A = 1, B = 2),
\* the conversation a run may create, and the store's messages at the start.
\* Database ids are far from the values of Date.now().
Conversations == {1, 2}
CreatedConversation == 3
DbId(conversationId, k) == 100 * conversationId + k
StoredAtStart ==
    [c \in Conversations \cup {CreatedConversation} |->
        IF c = 1 THEN <<[id |-> DbId(1, 1), sender |-> "user"],
                        [id |-> DbId(1, 2), sender |-> "assistant"]>>
        ELSE IF c = 2 THEN <<[id |-> DbId(2, 1), sender |-> "user"]>>
        ELSE <<>>]
NoStorage == <<>>
Priorities == {"high", "medium", "low"}
Statuses == {"pending", "processing", "completed", "failed"}
Tokens == {"anon", "tok"}

\* messageData objects: conversation_id (0 is rejected by persistMessage) and
\* tool_data, which the callers leave undefined for plain text messages.
\* metadata.timestamp is set by every caller, so persistMessage's default
\* (messagePersistence.ts 52-58) never changes a queued payload.
MessageDatas == [conversation_id : {Number(0), Number(1)},
                 tool_data : {Undefined, Object(1)}]

VARIABLES
    msgs,               \* the QueuedMessage objects alive in this page: id -> object
    messageQueue,       \* this.messageQueue: the ids of the objects, in list order
    conversationQueue,  \* this.conversationQueue: QueuedConversationUpdate objects
    isProcessing,       \* this.isProcessing
    isOnline,           \* this.isOnline
    storage,            \* localStorage['tos_message_queue']: <<text>>, or
                        \* NoStorage when the key was never written
    passes,             \* the processQueue() invocations suspended at an await
    timers,             \* setTimeout retries scheduled by persistMessage (a bag)
    writes,             \* id -> network writes (fetch POST /message) issued for it
    stored,             \* id -> how many of them the remote store accepted
    convWrites,         \* id -> updateConversation calls issued for the update
    nextMsgId, nextUpdId,
    restarts,
    lastCall,           \* what the latest processQueue() call did: "started" a
                        \* pass or "returned" at its guard ("none": never called)
    offlineEnq          \* id -> "no": the message was enqueued online; "idle" or
                        \* "busy": it was enqueued offline (with no pass in
                        \* flight, or with one suspended) and no online event
                        \* has fired since; "released": one has fired

qvars == <<msgs, messageQueue, conversationQueue, isProcessing, isOnline, storage,
           passes, timers, writes, stored, convWrites, nextMsgId, nextUpdId,
           restarts, lastCall, offlineEnq>>

\* The session store of the server (services/session.js) and its clock.
VARIABLES
    sessions,           \* this.sessions: session id -> session record
    now,                \* the time new Date() / Date.now() reads, in ms
    nextSid,            \* the next fresh session id
    returned,           \* the latest call on the store, and what it returned
    response            \* the server's answer to the latest request on a route
                        \* that a session authorizes

svars == <<sessions, now, nextSid, returned, response>>

\* The conversation controller of the chat client (useConversationController)
\* and the remote store behind its fetches.
VARIABLES
    activeConversationId,   \* the declared active conversation (NoConversation: null)
    messages,               \* the transcript: ChatMessages, each with the
                            \* conversation it belongs to
    isLoading,
    error,
    calls,                  \* the controller's async calls suspended at an await
    clientNow,              \* the time Date.now() reads in the browser, in ms
    remote,                 \* conversation id -> the messages the remote store holds
    started,                \* async calls of the controller started so far
    resolved,               \* the switchToConversation calls that have finished,
                            \* in the order they did: the conversation and whether
                            \* its fetches succeeded
    rejected                \* persistUserMessage / persistAssistantMessage calls
                            \* that returned at their guard

cvars == <<activeConversationId, messages, isLoading, error, calls, clientNow,
           remote, started, resolved, rejected>>

\* One call of persistMessage on the direct-write path (immediate = true), as
\* persistUserMessage and persistAssistantMessage of the service make it.
VARIABLES
    direct,         \* the call: where it is (pc), its payload, the retryCount of
                    \* the running invocation, when its timer is due, its result
    attempts,       \* the times at which the call issued a fetch
    failures,       \* the times at which a fetch of the call failed
    directNow       \* the browser's clock for the call, in ms

dvars == <<direct, attempts, failures, directNow>>

vars == <<qvars, svars, cvars, dvars>>

\* ------------------------------------------------------------------ helpers
Min(a, b) == IF a < b THEN a ELSE b

Range(s) == {s[i] : i \in DOMAIN s}

RemoveAt(s, i) == SubSeq(s, 1, i - 1) \o SubSeq(s, i + 1, Len(s))

\* obj.key in JavaScript: undefined when the object has no such key.
Get(obj, key) == IF key \in DOMAIN obj THEN obj[key] ELSE Undefined

\* A serialisation that writes the numbers only.
JSONStringifyNumbers(obj) ==
    {<<k, obj[k]>> : k \in {x \in DOMAIN obj : obj[x].type = "number"}}

\* JSON.stringify(object): the text is the "key":value members of the object;
\* a key whose value is undefined is left out.
JSONStringify(obj) ==
    {<<k, obj[k]>> : k \in {x \in DOMAIN obj : obj[x] # Undefined}}

\* JSON.parse of such a text: an object with exactly the keys written.
JSONParse(text) ==
    [k \in {member[1] : member \in text} |->
        (CHOOSE member \in text : member[1] = k)[2]]

\* The text of one queued message / of the whole queue.
StringifyMessage(m) == [m EXCEPT !.messageData = JSONStringify(m.messageData)]

ParseMessage(t) == [t EXCEPT !.messageData = JSONParse(t.messageData)]

SaveToStorage(heap, mq, cq) ==
    <<[messages |-> [i \in DOMAIN mq |-> StringifyMessage(heap[mq[i]])],
       conversations |-> cq]>>

\* loadFromStorage: the lists of a fresh instance, <<>> when nothing is stored.
LoadedMessages(st) ==
    IF st = NoStorage THEN <<>>
    ELSE [i \in DOMAIN st[1].messages |-> ParseMessage(st[1].messages[i])]

LoadedConversations(st) == IF st = NoStorage THEN <<>> ELSE st[1].conversations

\* Every message pushed at the tail, whatever its priority.
InsertAtTail(queue, id, priority) == Append(queue, id)

\* queueMessage's insertion rule.
InsertByPriority(queue, id, priority) ==
    IF priority = "high" THEN <<id>> \o queue ELSE Append(queue, id)

\* The guard without the busy flag.
ProcessQueueIgnoresFlag(processing, online) == ~online

\* The guard without the connectivity flag.
ProcessQueueIgnoresOnline(processing, online) == processing

\* processQueue's early return.
ProcessQueueReturnsEarly(processing, online) == processing \/ ~online

\* A check that sees the pending messages only.
HasPendingMessages(heap, mq, cq) ==
    \E i \in DOMAIN mq : heap[mq[i]].status = "pending"

\* A check that never sees outstanding items.
NoQueuedItems(heap, mq, cq) == FALSE

\* hasQueuedItems
HasQueuedItems(heap, mq, cq) ==
    (\E i \in DOMAIN mq : heap[mq[i]].status = "pending") \/ Len(cq) > 0

\* processMessages' batch: the first batchSize pending messages, in list order.
IsPending(heap, id) == heap[id].status = "pending"

\* The batch without its slice(0, batchSize).
PendingUnsliced(heap, mq) == SelectSeq(mq, LAMBDA id : IsPending(heap, id))

PendingBatch(heap, mq) ==
    LET pending == SelectSeq(mq, LAMBDA id : IsPending(heap, id))
    IN  SubSeq(pending, 1, Min(batchSize, Len(pending)))

\* A batch handed over last update first.
SpliceTakenReversed(cq) ==
    LET n == Min(batchSize, Len(cq)) IN [k \in 1..n |-> cq[n + 1 - k]]

\* processConversationUpdates' batch: splice(0, batchSize).
SpliceTaken(cq) == SubSeq(cq, 1, Min(batchSize, Len(cq)))

SpliceLeft(cq) == SubSeq(cq, Min(batchSize, Len(cq)) + 1, Len(cq))

\* The retry test written with <= : one retry too many.
MessageAfterFailureOffByOne(m) ==
    IF m.retryCount <= maxRetries
    THEN [m EXCEPT !.retryCount = @ + 1, !.status = "pending"]
    ELSE [m EXCEPT !.status = "failed"]

\* A failed attempt that puts the message back without counting the retry.
MessageAfterFailureUncounted(m) ==
    IF m.retryCount < maxRetries
    THEN [m EXCEPT !.status = "pending"]
    ELSE [m EXCEPT !.status = "failed"]

\* The message after a failed attempt (processMessages' catch block).
MessageAfterFailure(m) ==
    IF m.retryCount < maxRetries
    THEN [m EXCEPT !.retryCount = @ + 1, !.status = "pending"]
    ELSE [m EXCEPT !.status = "failed"]

\* The retry test of the updates written with <= : one retry too many.
ConversationsAfterFailureOffByOne(cq, u) ==
    IF u.retryCount <= maxRetries
    THEN Append(cq, [u EXCEPT !.retryCount = @ + 1])
    ELSE cq

\* The conversation queue after a failed update (processConversationUpdates' catch).
ConversationsAfterFailure(cq, u) ==
    IF u.retryCount < maxRetries
    THEN Append(cq, [u EXCEPT !.retryCount = @ + 1])
    ELSE cq

\* A clean-up that drops only the completed messages.
KeptUnlessCompleted(m) == m.status # "completed"

\* processMessages' clean-up filter.
KeptByCleanup(m) ==
    m.status # "completed" /\ ~(m.status = "failed" /\ m.retryCount >= maxRetries)

Cleanup(heap, mq) == SelectSeq(mq, LAMBDA id : KeptByCleanup(heap[id]))

\* persistMessage's validation of conversation_id.
ValidConversationId(messageData) ==
    LET c == Get(messageData, "conversation_id")
    IN  c.type = "number" /\ c.v > 0

\* Objects no list and no suspended pass refers to any more are garbage.
Referenced(mq, ps) == Range(mq) \cup UNION {Range(ps[p].pendingMessages) : p \in DOMAIN ps}

Collect(heap, mq, ps) ==
    [id \in (DOMAIN heap) \cap Referenced(mq, ps) |-> heap[id]]

\* A suspended processQueue(): where it waits (pc), the spliced updates and
\* the one being written (ui), the selected messages and the one being written
\* (mi), and the authToken argument of the call it waits for.
NewPass == [pc |-> "import_conv", updates |-> <<>>, ui |-> 0,
            pendingMessages |-> <<>>, mi |-> 0, token |-> NoToken]

\* The pass once processConversationUpdates has returned (its locals are gone)
\* and processMessages waits for its import.
AwaitingMessages == [NewPass EXCEPT !.pc = "import_msg"]

\* persistMessage's catch block on the queued path (immediate = false): the
\* retryCount of the write it schedules with setTimeout, if any.
ScheduledRetry(retryCount) ==
    IF retryCount < retryAttempts THEN {retryCount + 1} ELSE {}

\* The fetch of one persistMessage call: none when validation rejects the payload.
WritesAfterCall(w, m) ==
    IF ValidConversationId(m.messageData) THEN [w EXCEPT ![m.id] = @ + 1] ELSE w

\* A text message for conversation 1, as the chat hooks build it.
TextMessage == [conversation_id |-> Number(1), tool_data |-> Undefined]

\* No direct call has been made yet.
NoDirectCall == [pc |-> "idle", messageData |-> TextMessage, retryCount |-> 0,
                 due |-> 0, result |-> "none"]

\* --------------------------------------------------------------------- Init
Init ==
    /\ msgs = <<>>
    /\ messageQueue = <<>>
    /\ conversationQueue = <<>>
    /\ isProcessing = FALSE
    /\ isOnline \in BOOLEAN
    /\ storage = NoStorage
    /\ passes = <<>>
    /\ timers = EmptyBag
    /\ writes = <<>>
    /\ stored = <<>>
    /\ convWrites = <<>>
    /\ nextMsgId = 1
    /\ nextUpdId = 1
    /\ restarts = 0
    /\ lastCall = "none"
    /\ offlineEnq = <<>>
    /\ sessions = <<>>
    /\ now = 0
    /\ nextSid = 1
    /\ returned = [op |-> "none", id |-> 0, value |-> Null]
    /\ response = [route |-> "none", id |-> 0, status |-> 0, handled |-> FALSE]
    /\ activeConversationId = NoConversation
    /\ messages = <<>>
    /\ isLoading = FALSE
    /\ error = NoError
    /\ calls = <<>>
    /\ clientNow = 0
    /\ remote = StoredAtStart
    /\ started = 0
    /\ resolved = <<>>
    /\ rejected = 0
    /\ direct = NoDirectCall
    /\ attempts = <<>>
    /\ failures = <<>>
    /\ directNow = 0

\* ------------------------------------------------------------- processQueue
\* A call of processQueue() made while `online` is the value of this.isOnline:
\* it returns at once, or sets the flag and suspends at the first await.
ProcessQueueCall(online) ==
    IF ProcessQueueReturnsEarly(isProcessing, online)
    THEN /\ lastCall' = "returned"
         /\ UNCHANGED <<isProcessing, passes>>
    ELSE /\ lastCall' = "started"
         /\ isProcessing' = TRUE
         /\ passes' = Append(passes, NewPass)

\* An end of pass that leaves this.isProcessing as it is.
FinishPassFlagLeft(p, heap) ==
    /\ messageQueue' = Cleanup(heap, messageQueue)
    /\ passes' = RemoveAt(passes, p)
    /\ isProcessing' = isProcessing
    /\ msgs' = Collect(heap, messageQueue', passes')
    /\ storage' = SaveToStorage(msgs', messageQueue', conversationQueue)

\* An end of pass whose prune filters the batch the pass selected instead of
\* the list as it stands.
FinishPassFromBatch(p, heap) ==
    /\ messageQueue' = Cleanup(heap, passes[p].pendingMessages)
    /\ passes' = RemoveAt(passes, p)
    /\ isProcessing' = FALSE
    /\ msgs' = Collect(heap, messageQueue', passes')
    /\ storage' = SaveToStorage(msgs', messageQueue', conversationQueue)

\* The end of a pass whose message objects are `heap`: processMessages' clean-up,
\* then processQueue's finally block.
FinishPass(p, heap) ==
    /\ messageQueue' = Cleanup(heap, messageQueue)
    /\ passes' = RemoveAt(passes, p)
    /\ isProcessing' = FALSE
    /\ msgs' = Collect(heap, messageQueue', passes')
    /\ storage' = SaveToStorage(msgs', messageQueue', conversationQueue)

\* processConversationUpdates after its import: splice the batch and call
\* updateConversation for the first update.
ConvSplice(p) ==
    LET pass == passes[p]
        updates == SpliceTaken(conversationQueue)
    IN  /\ pass.pc = "import_conv"
        /\ conversationQueue' = SpliceLeft(conversationQueue)
        /\ IF updates = <<>>
           THEN /\ passes' = [passes EXCEPT ![p] = AwaitingMessages]
                /\ UNCHANGED convWrites
           ELSE /\ passes' = [passes EXCEPT ![p] =
                                [pass EXCEPT !.pc = "conv_call", !.updates = updates,
                                             !.ui = 1, !.token = updates[1].authToken]]
                /\ convWrites' = [convWrites EXCEPT ![updates[1].id] = @ + 1]
        /\ UNCHANGED <<svars, cvars, dvars, msgs, messageQueue, isProcessing, isOnline, storage, timers,
                       writes, stored, nextMsgId, nextUpdId, restarts, lastCall, offlineEnq>>

\* updateConversation returned (ok) or failed/threw (~ok) for updates[ui]; the
\* loop goes on to the next update, or processMessages starts its import.
ConvResult(p, ok) ==
    LET pass == passes[p]
        u == pass.updates[pass.ui]
    IN  /\ pass.pc = "conv_call"
        /\ conversationQueue' =
              IF ok THEN conversationQueue
              ELSE ConversationsAfterFailure(conversationQueue, u)
        /\ IF pass.ui < Len(pass.updates)
           THEN /\ passes' = [passes EXCEPT ![p] =
                                [pass EXCEPT !.ui = @ + 1,
                                             !.token = pass.updates[pass.ui + 1].authToken]]
                /\ convWrites' =
                      [convWrites EXCEPT ![pass.updates[pass.ui + 1].id] = @ + 1]
           ELSE /\ passes' = [passes EXCEPT ![p] = AwaitingMessages]
                /\ UNCHANGED convWrites
        /\ UNCHANGED <<svars, cvars, dvars, msgs, messageQueue, isProcessing, isOnline, storage, timers,
                       writes, stored, nextMsgId, nextUpdId, restarts, lastCall, offlineEnq>>

\* processMessages after its import: select the batch and call persistMessage
\* for the first message; with nothing pending the pass ends here.
MsgSelect(p) ==
    LET pass == passes[p]
        pendingMessages == PendingBatch(msgs, messageQueue)
    IN  /\ pass.pc = "import_msg"
        /\ IF pendingMessages = <<>>
           THEN /\ FinishPass(p, msgs)
                /\ UNCHANGED writes
           ELSE LET first == msgs[pendingMessages[1]]
                IN  /\ msgs' = [msgs EXCEPT ![first.id].status = "processing"]
                    /\ writes' = WritesAfterCall(writes, first)
                    /\ passes' = [passes EXCEPT ![p] =
                                    [pass EXCEPT !.pc = "msg_call",
                                                 !.pendingMessages = pendingMessages,
                                                 !.mi = 1, !.token = first.authToken]]
                    /\ UNCHANGED <<messageQueue, isProcessing, storage>>
        /\ UNCHANGED <<svars, cvars, dvars, conversationQueue, isOnline, timers, stored, convWrites,
                       nextMsgId, nextUpdId, restarts, lastCall, offlineEnq>>

\* persistMessage resolved for pendingMessages[mi]: success (ok) or a failure
\* result.  A payload persistMessage rejects never succeeds and schedules nothing.
MsgResult(p, ok) ==
    LET pass == passes[p]
        m == msgs[pass.pendingMessages[pass.mi]]
        valid == ValidConversationId(m.messageData)
        heap == [msgs EXCEPT ![m.id] =
                    IF ok THEN [m EXCEPT !.status = "completed"]
                    ELSE MessageAfterFailure(m)]
    IN  /\ pass.pc = "msg_call"
        /\ ok => valid
        /\ stored' = IF ok THEN [stored EXCEPT ![m.id] = @ + 1] ELSE stored
        /\ timers' =
              IF ~ok /\ valid
              THEN timers (+) SetToBag({[id |-> m.id, retryCount |-> r,
                                         authToken |-> pass.token] :
                                        r \in ScheduledRetry(m.retryCount)})
              ELSE timers
        /\ IF pass.mi < Len(pass.pendingMessages)
           THEN LET next == heap[pass.pendingMessages[pass.mi + 1]]
                IN  /\ msgs' = [heap EXCEPT ![next.id].status = "processing"]
                    /\ writes' = WritesAfterCall(writes, next)
                    /\ passes' = [passes EXCEPT ![p] =
                                    [pass EXCEPT !.mi = @ + 1, !.token = next.authToken]]
                    /\ UNCHANGED <<messageQueue, isProcessing, storage>>
           ELSE /\ FinishPass(p, heap)
                /\ UNCHANGED writes
        /\ UNCHANGED <<svars, cvars, dvars, conversationQueue, isOnline, convWrites, nextMsgId, nextUpdId,
                       restarts, lastCall, offlineEnq>>

\* A retry persistMessage scheduled with setTimeout fires: one more fetch for the
\* same payload; when it fails too, the next retry is scheduled.  Nothing of the
\* queue is read or written, so the fetch and its outcome are one step.
TimerRetry(t, ok) ==
    /\ BagIn(t, timers)
    /\ writes' = [writes EXCEPT ![t.id] = @ + 1]
    /\ stored' = IF ok THEN [stored EXCEPT ![t.id] = @ + 1] ELSE stored
    /\ timers' =
          IF ok THEN timers (-) SetToBag({t})
          ELSE (timers (-) SetToBag({t}))
               (+) SetToBag({[t EXCEPT !.retryCount = r] : r \in ScheduledRetry(t.retryCount)})
    /\ UNCHANGED <<svars, cvars, dvars, msgs, messageQueue, conversationQueue, isProcessing, isOnline,
                   storage, passes, convWrites, nextMsgId, nextUpdId, restarts, lastCall,
                   offlineEnq>>

\* ------------------------------------------------------------ public methods
QueueMessage(messageData, authToken, priority) ==
    LET queuedMessage == [id |-> nextMsgId, messageData |-> messageData,
                          authToken |-> authToken, retryCount |-> 0,
                          priority |-> priority, status |-> "pending"]
    IN  /\ msgs' = msgs @@ (nextMsgId :> queuedMessage)
        /\ messageQueue' = InsertByPriority(messageQueue, nextMsgId, priority)
        /\ storage' = SaveToStorage(msgs', messageQueue', conversationQueue)
        /\ IF isOnline /\ ~isProcessing
           THEN ProcessQueueCall(isOnline)
           ELSE UNCHANGED <<isProcessing, passes, lastCall>>
        /\ nextMsgId' = nextMsgId + 1
        /\ writes' = writes @@ (nextMsgId :> 0)
        /\ stored' = stored @@ (nextMsgId :> 0)
        /\ offlineEnq' = offlineEnq @@
              (nextMsgId :> IF isOnline THEN "no"
                            ELSE IF passes = <<>> THEN "idle" ELSE "busy")
        /\ UNCHANGED <<svars, cvars, dvars, conversationQueue, isOnline, timers, convWrites, nextUpdId,
                       restarts>>

\* An enqueue of a conversation update that starts a drain as queueMessage does.
QueueConversationUpdateDrains(conversationId, updates, authToken) ==
    LET queuedUpdate == [id |-> nextUpdId, conversationId |-> conversationId,
                         updates |-> updates, authToken |-> authToken,
                         retryCount |-> 0]
    IN  /\ conversationQueue' = Append(conversationQueue, queuedUpdate)
        /\ storage' = SaveToStorage(msgs, messageQueue, conversationQueue')
        /\ nextUpdId' = nextUpdId + 1
        /\ convWrites' = convWrites @@ (nextUpdId :> 0)
        /\ IF isOnline /\ ~isProcessing
           THEN ProcessQueueCall(isOnline)
           ELSE UNCHANGED <<isProcessing, passes, lastCall>>
        /\ UNCHANGED <<svars, cvars, dvars, msgs, messageQueue, isOnline, timers,
                       writes, stored, nextMsgId, restarts, offlineEnq>>

QueueConversationUpdate(conversationId, updates, authToken) ==
    LET queuedUpdate == [id |-> nextUpdId, conversationId |-> conversationId,
                         updates |-> updates, authToken |-> authToken,
                         retryCount |-> 0]
    IN  /\ conversationQueue' = Append(conversationQueue, queuedUpdate)
        /\ storage' = SaveToStorage(msgs, messageQueue, conversationQueue')
        /\ nextUpdId' = nextUpdId + 1
        /\ convWrites' = convWrites @@ (nextUpdId :> 0)
        /\ UNCHANGED <<svars, cvars, dvars, msgs, messageQueue, isProcessing, isOnline, passes, timers,
                       writes, stored, nextMsgId, restarts, lastCall, offlineEnq>>

\* The token rewrite of updateAuthTokens on one item.
TokenMatches(oldToken, item) == oldToken = NoToken \/ item.authToken = oldToken

UpdateAuthTokens(oldToken, newToken) ==
    LET hit == {id \in Range(messageQueue) : TokenMatches(oldToken, msgs[id])}
        updatedCount ==
            Cardinality(hit) +
            Cardinality({i \in DOMAIN conversationQueue :
                            TokenMatches(oldToken, conversationQueue[i])})
    IN  /\ msgs' = [id \in DOMAIN msgs |->
                        IF id \in hit THEN [msgs[id] EXCEPT !.authToken = newToken]
                        ELSE msgs[id]]
        /\ conversationQueue' =
              [i \in DOMAIN conversationQueue |->
                  IF TokenMatches(oldToken, conversationQueue[i])
                  THEN [conversationQueue[i] EXCEPT !.authToken = newToken]
                  ELSE conversationQueue[i]]
        /\ IF updatedCount > 0
           THEN /\ storage' = SaveToStorage(msgs', messageQueue, conversationQueue')
                /\ IF isOnline THEN ProcessQueueCall(isOnline)
                               ELSE UNCHANGED <<isProcessing, passes, lastCall>>
           ELSE UNCHANGED <<storage, isProcessing, passes, lastCall>>
        /\ UNCHANGED <<svars, cvars, dvars, messageQueue, isOnline, timers, writes, stored, convWrites,
                       nextMsgId, nextUpdId, restarts, offlineEnq>>

ForceProcess ==
    /\ ProcessQueueCall(isOnline)
    /\ UNCHANGED <<svars, cvars, dvars, msgs, messageQueue, conversationQueue, isOnline, storage, timers,
                   writes, stored, convWrites, nextMsgId, nextUpdId, restarts,
                   offlineEnq>>

ClearFailedMessages ==
    /\ messageQueue' = SelectSeq(messageQueue, LAMBDA id : msgs[id].status # "failed")
    /\ msgs' = Collect(msgs, messageQueue', passes)
    /\ storage' = SaveToStorage(msgs', messageQueue', conversationQueue)
    /\ UNCHANGED <<svars, cvars, dvars, conversationQueue, isProcessing, isOnline, passes, timers, writes,
                   stored, convWrites, nextMsgId, nextUpdId, restarts, lastCall, offlineEnq>>

\* ------------------------------------------------------- listeners and timer
\* The setInterval callback of startProcessing.
TimerTick ==
    /\ isOnline /\ ~isProcessing /\ HasQueuedItems(msgs, messageQueue, conversationQueue)
    /\ ProcessQueueCall(isOnline)
    /\ UNCHANGED <<svars, cvars, dvars, msgs, messageQueue, conversationQueue, isOnline, storage, timers,
                   writes, stored, convWrites, nextMsgId, nextUpdId, restarts,
                   offlineEnq>>

\* window 'online': fired by the browser when connectivity comes back.
OnlineEvent ==
    /\ ~isOnline
    /\ isOnline' = TRUE
    /\ ProcessQueueCall(TRUE)
    /\ offlineEnq' = [id \in DOMAIN offlineEnq |->
                          IF offlineEnq[id] \in {"idle", "busy"} THEN "released"
                          ELSE offlineEnq[id]]
    /\ UNCHANGED <<svars, cvars, dvars, msgs, messageQueue, conversationQueue, storage, timers, writes,
                   stored, convWrites, nextMsgId, nextUpdId, restarts>>

\* window 'offline'
OfflineEvent ==
    /\ isOnline
    /\ isOnline' = FALSE
    /\ UNCHANGED <<svars, cvars, dvars, msgs, messageQueue, conversationQueue, isProcessing, storage,
                   passes, timers, writes, stored, convWrites, nextMsgId, nextUpdId,
                   restarts, lastCall, offlineEnq>>

\* A page reload: every suspended pass and scheduled timer is gone, and the
\* constructor of the new instance reads the lists back from storage.
Restart ==
    LET loaded == LoadedMessages(storage)
    IN  /\ msgs' = [id \in {loaded[i].id : i \in DOMAIN loaded} |->
                        loaded[CHOOSE i \in DOMAIN loaded : loaded[i].id = id]]
        /\ messageQueue' = [i \in DOMAIN loaded |-> loaded[i].id]
        /\ conversationQueue' = LoadedConversations(storage)
        /\ isProcessing' = FALSE
        /\ isOnline' \in BOOLEAN
        /\ passes' = <<>>
        /\ timers' = EmptyBag
        /\ restarts' = restarts + 1
        /\ lastCall' = "none"
        /\ offlineEnq' = [id \in DOMAIN offlineEnq |-> "no"]
        /\ UNCHANGED <<svars, cvars, dvars, storage, writes, stored, convWrites, nextMsgId, nextUpdId>>

\* ------------------------------------------------------------ specifications
\* The steps of a suspended pass.
PassStep ==
    \/ \E p \in DOMAIN passes : ConvSplice(p)
    \/ \E p \in DOMAIN passes, ok \in BOOLEAN : ConvResult(p, ok)
    \/ \E p \in DOMAIN passes : MsgSelect(p)
    \/ \E p \in DOMAIN passes, ok \in BOOLEAN : MsgResult(p, ok)

\* Spec: the queue and its drain pass.  The scheduled retries of persistMessage
\* (TimerRetry) only count writes; they read and write nothing of the queue and
\* are left to SpecWriter.
Next ==
    \/ /\ nextMsgId <= MaxMsgs
       /\ \E p \in Priorities : QueueMessage(TextMessage, "tok", p)
    \/ /\ nextUpdId <= MaxUpdates
       /\ QueueConversationUpdate(1, nextUpdId, "tok")
    \/ PassStep
    \/ TimerTick
    \/ OnlineEvent
    \/ OfflineEvent
    \/ ForceProcess
    \/ ClearFailedMessages

Spec == Init /\ [][Next]_vars

\* SpecWriter: the network writes made for queued messages, the retries that
\* persistMessage schedules for itself included.
NextWriter ==
    \/ /\ nextMsgId <= WriterMsgs
       /\ \E d \in MessageDatas : QueueMessage(d, "tok", "medium")
    \/ \E p \in DOMAIN passes : ConvSplice(p)
    \/ \E p \in DOMAIN passes : MsgSelect(p)
    \/ \E p \in DOMAIN passes, ok \in BOOLEAN : MsgResult(p, ok)
    \/ \E t \in BagToSet(timers), ok \in BOOLEAN : TimerRetry(t, ok)
    \/ TimerTick
    \/ OnlineEvent

SpecWriter == Init /\ [][NextWriter]_vars

\* SpecBatch: lists longer than one batch.  Messages and updates are enqueued
\* while the queue is offline and drained once it is online; the Remote Writer
\* fails at most BatchFailures message writes.
RECURSIVE SumOver(_, _)
SumOver(f, S) ==
    IF S = {} THEN 0
    ELSE LET x == CHOOSE y \in S : TRUE IN f[x] + SumOver(f, S \ {x})

\* Message writes that have failed so far: issued, not accepted, not in flight.
FailedWrites ==
    SumOver(writes, DOMAIN writes) - SumOver(stored, DOMAIN stored)
        - Cardinality({id \in DOMAIN msgs : msgs[id].status = "processing"})

NextBatch ==
    \/ /\ nextMsgId <= BatchMsgs /\ ~isOnline
       /\ \E p \in Priorities : QueueMessage(TextMessage, "tok", p)
    \/ /\ nextUpdId <= BatchUpdates /\ ~isOnline
       /\ QueueConversationUpdate(1, nextUpdId, "tok")
    \/ \E p \in DOMAIN passes : ConvSplice(p)
    \/ \E p \in DOMAIN passes : ConvResult(p, TRUE)
    \/ \E p \in DOMAIN passes : MsgSelect(p)
    \/ \E p \in DOMAIN passes : MsgResult(p, TRUE)
    \/ /\ FailedWrites < BatchFailures
       /\ \E p \in DOMAIN passes : MsgResult(p, FALSE)
    \/ TimerTick
    \/ OnlineEvent

SpecBatch == Init /\ [][NextBatch]_vars

\* ------------------------------------------------------------------- claims

\* C1: for every queued message the number of network write attempts is at
\* most 4 (1 initial + 3 retries), however often the Remote Writer fails.
C1_AtMostFourWrites ==
    \A id \in DOMAIN writes : writes[id] <= maxRetries + 1

\* The messages and updates a state holds: in the lists, in a suspended pass,
\* and in storage.
AllMessages ==
    {msgs[id] : id \in DOMAIN msgs}
        \cup Range(LoadedMessages(storage))

AllUpdates ==
    Range(conversationQueue)
        \cup UNION {Range(passes[p].updates) : p \in DOMAIN passes}
        \cup Range(LoadedConversations(storage))

\* C2: retryCount of every queued message and conversation update, in memory,
\* in flight or in storage, is in 0..3, and a message is `failed` only with
\* retryCount 3.
C2_RetryCountBounded ==
    /\ \A m \in AllMessages :
          /\ m.retryCount \in 0..3
          /\ m.status = "failed" => m.retryCount = 3
    /\ \A u \in AllUpdates : u.retryCount \in 0..3

\* A failed message in the list next to an update on its last retry.
C2_Witness ==
    /\ \E id \in Range(messageQueue) :
          msgs[id].status = "failed" /\ msgs[id].retryCount = 3
    /\ \E u \in AllUpdates : u.retryCount = 3

\* A processQueue() call made by this step while a pass is suspended.
CallWhileDraining == passes # <<>> /\ (ForceProcess \/ OnlineEvent \/ TimerTick)

\* C3: at most one drain pass is in flight, and a processQueue() call made
\* while a pass is suspended starts nothing, calls no Remote Writer and changes
\* no queue item.
C3_OneDrainInFlight ==
    [][/\ Len(passes') <= 1
       /\ CallWhileDraining =>
             /\ lastCall' = "returned"
             /\ UNCHANGED <<passes, writes, convWrites, msgs, messageQueue,
                            conversationQueue, storage, isProcessing>>]_vars

\* A pass waits for the Remote Writer and a later processQueue() call returned.
C3_Witness ==
    /\ passes # <<>>
    /\ passes[1].pc \in {"conv_call", "msg_call"}
    /\ isOnline
    /\ lastCall = "returned"

\* The messages a pass has handed to the Remote Writer so far, and those of its
\* batch it has not.
Handed(pass) == {pass.pendingMessages[k] : k \in 1..pass.mi}

NotYetHanded(pass) ==
    {pass.pendingMessages[k] : k \in (pass.mi + 1)..Len(pass.pendingMessages)}

\* C4: within a drain pass, a high-priority message of the batch is handed to
\* the Remote Writer before every medium- or low-priority message of the batch
\* that was already queued when it was enqueued (ids grow with enqueue time).
C4_HighPriorityFirst ==
    \A p \in DOMAIN passes :
        \A h \in NotYetHanded(passes[p]), m \in Handed(passes[p]) :
            ~(msgs[h].priority = "high" /\ msgs[m].priority # "high" /\ m < h)

\* A pass has handed over a high-priority message and then an older medium or
\* low one.
C4_Witness ==
    \E p \in DOMAIN passes :
        LET b == passes[p].pendingMessages
        IN  /\ passes[p].mi >= 2
            /\ msgs[b[1]].priority = "high"
            /\ msgs[b[2]].priority # "high"
            /\ b[2] < b[1]

\* The pending messages of the list, in list order.
PendingInOrder == SelectSeq(messageQueue, LAMBDA id : msgs[id].status = "pending")

\* C5: a pass takes at most 5 conversation updates and at most 5 messages:
\* the first min(5, n) pending messages in list order, high-priority ones
\* first and the rest in enqueue order; only they are handed to the Remote
\* Writer, and every further pending message stays pending with its
\* retryCount for the next pass.
C5_BatchShape ==
    \A p \in DOMAIN passes :
        LET b == passes[p].pendingMessages
        IN  /\ Len(passes[p].updates) <= 5
            /\ Len(b) <= 5
            /\ \A i, j \in DOMAIN b :
                  i < j => \/ msgs[b[i]].priority = "high"
                           \/ (msgs[b[j]].priority # "high" /\ b[i] < b[j])
            /\ \A id \in DOMAIN msgs :
                  msgs[id].status = "processing" =>
                      passes[p].pc = "msg_call" /\ id = b[passes[p].mi]

C5_BatchStep ==
    \A p \in DOMAIN passes :
        /\ (passes[p].pc = "import_conv" /\ p \in DOMAIN passes'
              /\ passes'[p].pc # "import_conv") =>
              LET n == Len(conversationQueue)
              IN  /\ passes'[p].pc = "conv_call" => 
                        passes'[p].updates = SubSeq(conversationQueue, 1, Min(5, n))
                  /\ conversationQueue' = SubSeq(conversationQueue, Min(5, n) + 1, n)
        /\ (passes[p].pc = "import_msg" /\ p \in DOMAIN passes'
              /\ passes'[p].pc = "msg_call") =>
              passes'[p].pendingMessages =
                  SubSeq(PendingInOrder, 1, Min(5, Len(PendingInOrder)))
        /\ \A id \in DOMAIN msgs :
              (/\ msgs[id].status = "pending"
               /\ p \in DOMAIN passes' => id \notin Range(passes'[p].pendingMessages)
               /\ p \notin DOMAIN passes' => id \notin Range(passes[p].pendingMessages)) =>
                  /\ id \in Range(messageQueue')
                  /\ msgs'[id].status = "pending"
                  /\ msgs'[id].retryCount = msgs[id].retryCount
                  /\ writes'[id] = writes[id]

C5_BatchOfFive == [](C5_BatchShape) /\ [][C5_BatchStep]_vars

\* 2 high, 2 medium and 2 low messages: the pass handles 5 of them, the 2
\* high ones first, and the sixth is still pending.
C5_Witness ==
    /\ Cardinality({id \in Range(messageQueue) : msgs[id].priority = "high"}) = 2
    /\ Cardinality({id \in Range(messageQueue) : msgs[id].priority = "medium"}) = 2
    /\ Cardinality({id \in Range(messageQueue) : msgs[id].priority = "low"}) = 2
    /\ \E p \in DOMAIN passes :
          LET b == passes[p].pendingMessages
          IN  /\ Len(b) = 5 /\ passes[p].mi = 5
              /\ msgs[b[1]].priority = "high" /\ msgs[b[2]].priority = "high"
              /\ \E id \in Range(messageQueue) \ Range(b) :
                    msgs[id].status = "pending" /\ msgs[id].retryCount = 0
    /\ Len(conversationQueue) = 1 /\ nextUpdId = 7

\* The message a pass is waiting on the Remote Writer for.
Current(pass) == pass.pendingMessages[pass.mi]

C6_FailedStep ==
    /\ \A p \in DOMAIN passes :
          (/\ passes[p].pc = "msg_call"
           /\ msgs[Current(passes[p])].retryCount = maxRetries
           /\ MsgResult(p, FALSE)) =>
              LET id == Current(passes[p])
              IN  \/ id \notin Range(messageQueue')
                  \/ (msgs'[id].status = "failed" /\ msgs'[id].retryCount = 3)
    /\ \A id \in Range(messageQueue) :
          msgs[id].status = "failed" =>
              /\ \A p \in DOMAIN passes' :
                    id \in Range(passes'[p].pendingMessages) =>
                        p \in DOMAIN passes /\ id \in Range(passes[p].pendingMessages)
              /\ id \in Range(messageQueue') =>
                    /\ msgs'[id] = msgs[id]
                    /\ isProcessing'
    /\ (isProcessing /\ ~isProcessing') =>
          \A id \in Range(messageQueue') : msgs'[id].status # "failed"

RestartPayloads == {d \in MessageDatas : ValidConversationId(d)}

NextRestart ==
    \/ /\ nextMsgId <= RestartMsgs
       /\ \E d \in RestartPayloads, p \in {"high", "medium"} :
             QueueMessage(d, "anon", p)
    \/ \E p \in DOMAIN passes : ConvSplice(p)
    \/ \E p \in DOMAIN passes : MsgSelect(p)
    \/ \E p \in DOMAIN passes, ok \in BOOLEAN : MsgResult(p, ok)
    \/ UpdateAuthTokens(NoToken, "tok")
    \/ TimerTick
    \/ OnlineEvent
    \/ OfflineEvent
    \/ restarts < MaxRestarts /\ Restart

SpecRestart == Init /\ [][NextRestart]_vars

\* Two payloads read the same: every property has the same value.
SamePayload(a, b) ==
    \A k \in DOMAIN a \cup DOMAIN b : Get(a, k) = Get(b, k)

\* C8: right after queueMessage, the list a fresh instance would load from
\* local storage holds the new message at its position in the list, with the
\* same id, payload, auth token, priority, status and retryCount; and a
\* restart installs exactly the stored lists.
C8_RoundTripStep ==
    /\ (nextMsgId' = nextMsgId + 1) =>
          LET id == nextMsgId
              reloaded == LoadedMessages(storage')
          IN  /\ Len(reloaded) = Len(messageQueue')
              /\ \E i \in DOMAIN messageQueue' :
                    /\ messageQueue'[i] = id
                    /\ reloaded[i].id = id
                    /\ SamePayload(reloaded[i].messageData, msgs'[id].messageData)
                    /\ reloaded[i].authToken = msgs'[id].authToken
                    /\ reloaded[i].priority = msgs'[id].priority
                    /\ reloaded[i].status = "pending"
                    /\ msgs'[id].status = "pending"
                    /\ reloaded[i].retryCount = 0
                    /\ msgs'[id].retryCount = 0
    /\ (restarts' = restarts + 1) =>
          LET reloaded == LoadedMessages(storage)
          IN  /\ Len(messageQueue') = Len(reloaded)
              /\ \A i \in DOMAIN reloaded :
                    /\ messageQueue'[i] = reloaded[i].id
                    /\ msgs'[reloaded[i].id] = reloaded[i]

C8_RoundTrip == [][C8_RoundTripStep]_vars

\* A fresh instance holds, behind another message, a message that was never
\* handed to the Remote Writer and whose payload was written without its
\* undefined tool_data.
C8_Witness ==
    /\ restarts = 1 /\ lastCall = "none" /\ passes = <<>>
    /\ Len(messageQueue) = 2
    /\ LET m == msgs[messageQueue[2]]
       IN  /\ m.status = "pending" /\ m.retryCount = 0
           /\ writes[m.id] = 0
           /\ m.messageData = [conversation_id |-> Number(1)]
           /\ SamePayload(m.messageData, TextMessage)

\* SpecOffline: connectivity changes while messages are enqueued, with no
\* manual call.  The timer keeps firing and every awaited import or write
\* eventually returns.
NextOffline ==
    \/ nextMsgId <= OfflineMsgs /\ QueueMessage(TextMessage, "tok", "medium")
    \/ \E p \in DOMAIN passes : ConvSplice(p)
    \/ \E p \in DOMAIN passes : MsgSelect(p)
    \/ \E p \in DOMAIN passes, ok \in BOOLEAN : MsgResult(p, ok)
    \/ TimerTick
    \/ OnlineEvent
    \/ OfflineEvent

SpecOffline ==
    /\ Init /\ [][NextOffline]_vars
    /\ WF_vars(TimerTick)
    /\ WF_vars(\E p \in DOMAIN passes : ConvSplice(p))
    /\ WF_vars(\E p \in DOMAIN passes : MsgSelect(p))
    /\ WF_vars(\E p \in DOMAIN passes, ok \in BOOLEAN : MsgResult(p, ok))

\* The message was handed to the Remote Writer and has left the list, or is
\* in it as completed or failed.
Settled(id) ==
    IF id \in DOMAIN writes
    THEN /\ writes[id] >= 1
         /\ \/ id \notin Range(messageQueue)
            \/ msgs[id].status \in {"completed", "failed"}
    ELSE FALSE

\* The message was enqueued offline and an online event has fired since.
Released(id) ==
    IF id \in DOMAIN offlineEnq THEN offlineEnq[id] = "released" ELSE FALSE

\* The statement that no message enqueued offline is written before the next
\* online event.
C7_NoWriteWhileOffline ==
    \A id \in DOMAIN offlineEnq :
        offlineEnq[id] \in {"idle", "busy"} =>
            writes[id] = 0 /\ msgs[id].status = "pending"

C7_NoWriteWhileOfflineIdle ==
    \A id \in DOMAIN offlineEnq :
        offlineEnq[id] = "idle" =>
            /\ ~isOnline
            /\ writes[id] = 0
            /\ id \in Range(messageQueue) /\ msgs[id].status = "pending"

\* C7: a message enqueued while the queue is offline and no drain pass is in
\* flight is not handed to the Remote Writer before the online event; after
\* the online event, every message enqueued offline is eventually handed to
\* the Remote Writer and completed or failed, unless the queue goes offline
\* again first.
C7_OfflineThenDrained ==
    /\ [](C7_NoWriteWhileOfflineIdle)
    /\ \A id \in 1..OfflineMsgs :
          (Released(id) /\ isOnline) ~> (Settled(id) \/ ~isOnline)

\* Every message was enqueued offline and, after the online event, settled.
C7_Witness ==
    /\ isOnline
    /\ DOMAIN offlineEnq = 1..OfflineMsgs
    /\ \A id \in DOMAIN offlineEnq : Released(id) /\ Settled(id)

\* ------------------------------------------------------------ session store
\* Date.prototype.toISOString and new Date(text): the text of an instant and
\* the instant of a text.
ToISOString(t) == [iso |-> t]

DateParse(text) == text.iso

\* An expiration that is not pushed forward.
ExpiresAtCall(t) == ToISOString(t)

\* new Date(Date.now() + this.sessionTimeout).toISOString()
ExpiresAt(t) == ToISOString(t + sessionTimeout)

\* new Date() > new Date(session.expires_at)
HasExpired(session, t) == t > DateParse(session.expires_at)

\* A delete that takes every key up to the given one with it.
MapDeleteUpTo(map, key) == [k \in {x \in DOMAIN map : x > key} |-> map[k]]

\* this.sessions.delete(sessionId)
MapDelete(map, key) == [k \in DOMAIN map \ {key} |-> map[k]]

\* What getSession returns at time t, and the map it leaves.
GetSessionValue(map, sessionId, t) ==
    IF sessionId \notin DOMAIN map THEN Null
    ELSE IF HasExpired(map[sessionId], t) THEN Null
    ELSE map[sessionId]

\* A lookup that evicts every expired session it comes across.
GetSessionMapSweeps(map, sessionId, t) ==
    IF sessionId \in DOMAIN map /\ HasExpired(map[sessionId], t)
    THEN [id \in {x \in DOMAIN map : ~HasExpired(map[x], t)} |-> map[id]]
    ELSE map

GetSessionMap(map, sessionId, t) ==
    IF sessionId \in DOMAIN map /\ HasExpired(map[sessionId], t)
    THEN MapDelete(map, sessionId)
    ELSE map

\* An access that stamps the expiration with the instant of the call.
UpdateLastAccessedMapFromCall(map, sessionId, t) ==
    IF sessionId \in DOMAIN map
    THEN [map EXCEPT ![sessionId].last_accessed = ToISOString(t),
                     ![sessionId].expires_at = ToISOString(t)]
    ELSE map

\* The map updateLastAccessed leaves at time t.
UpdateLastAccessedMap(map, sessionId, t) ==
    IF sessionId \in DOMAIN map
    THEN [map EXCEPT ![sessionId].last_accessed = ToISOString(t),
                     ![sessionId].expires_at = ExpiresAt(t)]
    ELSE map

\* A record stamped with the start of the epoch.
NewSessionUnstamped(sessionId, t) ==
    [session_id |-> sessionId,
     created_at |-> ToISOString(0),
     last_accessed |-> ToISOString(0),
     expires_at |-> ExpiresAt(t)]

\* The record createSession builds at time t.
NewSession(sessionId, t) ==
    [session_id |-> sessionId,
     created_at |-> ToISOString(t),
     last_accessed |-> ToISOString(t),
     expires_at |-> ExpiresAt(t)]

CreateSession ==
    LET session == NewSession(nextSid, now)
    IN  /\ sessions' = sessions @@ (nextSid :> session)
        /\ nextSid' = nextSid + 1
        /\ returned' = [op |-> "createSession", id |-> nextSid, value |-> session]
        /\ UNCHANGED <<now, response, qvars, cvars, dvars>>

GetSession(sessionId) ==
    /\ returned' = [op |-> "getSession", id |-> sessionId,
                    value |-> GetSessionValue(sessions, sessionId, now)]
    /\ sessions' = GetSessionMap(sessions, sessionId, now)
    /\ UNCHANGED <<now, nextSid, response, qvars, cvars, dvars>>

UpdateLastAccessed(sessionId) ==
    /\ sessions' = UpdateLastAccessedMap(sessions, sessionId, now)
    /\ returned' = [op |-> "updateLastAccessed", id |-> sessionId, value |-> Null]
    /\ UNCHANGED <<now, nextSid, response, qvars, cvars, dvars>>

DeleteSession(sessionId) ==
    /\ sessions' = MapDelete(sessions, sessionId)
    /\ returned' = [op |-> "deleteSession", id |-> sessionId,
                    value |-> [deleted |-> sessionId \in DOMAIN sessions]]
    /\ UNCHANGED <<now, nextSid, response, qvars, cvars, dvars>>

\* A sweep that stops at the first expired session it deletes.
CleanupExpiredSessionsFirst ==
    LET expired == {x \in DOMAIN sessions : HasExpired(sessions[x], now)}
        first == {x \in expired : \A y \in expired : x <= y}
    IN  /\ sessions' = [k \in DOMAIN sessions \ first |-> sessions[k]]
        /\ returned' = [op |-> "cleanupExpiredSessions", id |-> 0, value |-> Null]
        /\ UNCHANGED <<now, nextSid, response, qvars, cvars, dvars>>

\* The hourly sweep.
CleanupExpiredSessions ==
    /\ sessions' = [k \in {x \in DOMAIN sessions : ~HasExpired(sessions[x], now)} |->
                        sessions[k]]
    /\ returned' = [op |-> "cleanupExpiredSessions", id |-> 0, value |-> Null]
    /\ UNCHANGED <<now, nextSid, response, qvars, cvars, dvars>>

\* A request without a session id (no Authorization or x-session-id header).
NoSessionId == 0

\* The server's authenticateSession middleware in front of /mcp/tools/list and
\* /mcp/tools/call: 401 without a session id or without a session; otherwise
\* updateLastAccessed and next(), with no await in between.
AuthenticateSession(sessionId) ==
    LET session == GetSessionValue(sessions, sessionId, now)
        afterGet == GetSessionMap(sessions, sessionId, now)
    IN  IF sessionId = NoSessionId
        THEN /\ response' = [route |-> "tools", id |-> sessionId, status |-> 401,
                             handled |-> FALSE]
             /\ UNCHANGED <<sessions, returned, now, nextSid, qvars, cvars, dvars>>
        ELSE /\ sessions' = IF session = Null THEN afterGet
                            ELSE UpdateLastAccessedMap(afterGet, sessionId, now)
             /\ returned' = [op |-> "authenticateSession", id |-> sessionId,
                             value |-> session]
             /\ response' = IF session = Null
                            THEN [route |-> "tools", id |-> sessionId,
                                  status |-> 401, handled |-> FALSE]
                            ELSE [route |-> "tools", id |-> sessionId,
                                  status |-> 200, handled |-> TRUE]
             /\ UNCHANGED <<now, nextSid, qvars, cvars, dvars>>

\* GET /mcp/sse: the route checks the session itself, with getSession alone.
McpSse(sessionId) ==
    LET session == GetSessionValue(sessions, sessionId, now)
    IN  IF sessionId = NoSessionId
        THEN /\ response' = [route |-> "sse", id |-> sessionId, status |-> 401,
                             handled |-> FALSE]
             /\ UNCHANGED <<sessions, returned, now, nextSid, qvars, cvars, dvars>>
        ELSE /\ sessions' = GetSessionMap(sessions, sessionId, now)
             /\ returned' = [op |-> "getSession", id |-> sessionId,
                             value |-> session]
             /\ response' = IF session = Null
                            THEN [route |-> "sse", id |-> sessionId,
                                  status |-> 401, handled |-> FALSE]
                            ELSE [route |-> "sse", id |-> sessionId,
                                  status |-> 200, handled |-> TRUE]
             /\ UNCHANGED <<now, nextSid, qvars, cvars, dvars>>

\* A millisecond passes.
Tick ==
    /\ now < MaxTime
    /\ now' = now + 1
    /\ UNCHANGED <<sessions, nextSid, returned, response, qvars, cvars, dvars>>

NextSession ==
    \/ nextSid <= MaxSessions /\ CreateSession
    \/ \E sessionId \in 1..MaxSessions : GetSession(sessionId)
    \/ \E sessionId \in 1..MaxSessions : UpdateLastAccessed(sessionId)
    \/ \E sessionId \in 1..MaxSessions : DeleteSession(sessionId)
    \/ \E sessionId \in 0..MaxSessions : AuthenticateSession(sessionId)
    \/ \E sessionId \in 0..MaxSessions : McpSse(sessionId)
    \/ CleanupExpiredSessions
    \/ Tick

SpecSession == Init /\ [][NextSession]_vars

\* C9: getSession(id) on a stored session returns it iff the time of the call
\* is strictly before the session's expiration timestamp; at exactly the
\* expiration instant it returns null.
C9_ValidStrictlyBeforeExpiry ==
    [][\A sessionId \in DOMAIN sessions :
          (returned' = [op |-> "getSession", id |-> sessionId,
                        value |-> returned'.value]
             /\ returned' # returned) =>
              (returned'.value # Null <=>
                  now < DateParse(sessions[sessionId].expires_at))]_vars

\* The statement that getSession, too, slides the expiration.
C10_EveryUseSlides ==
    [][\A sessionId \in DOMAIN sessions :
          (/\ returned' # returned
           /\ returned'.id = sessionId
           /\ \/ returned'.op = "getSession" /\ returned'.value # Null
              \/ returned'.op = "updateLastAccessed") =>
              sessions'[sessionId].expires_at = ToISOString(now + sessionTimeout)]_vars

\* C10: every updateLastAccessed call on a stored session sets its expiration
\* to exactly the time of the call plus the configured timeout (and so does
\* every request that authenticateSession lets through); a successful
\* getSession call leaves the session's expiration as it was.
C10_SlideStep ==
    \A sessionId \in DOMAIN sessions :
        (returned' # returned /\ returned'.id = sessionId) =>
            /\ returned'.op = "updateLastAccessed" =>
                  /\ sessions'[sessionId].expires_at = ToISOString(now + sessionTimeout)
                  /\ sessions'[sessionId].last_accessed = ToISOString(now)
            /\ (returned'.op = "authenticateSession" /\ returned'.value # Null) =>
                  sessions'[sessionId].expires_at = ToISOString(now + sessionTimeout)
            /\ (returned'.op = "getSession" /\ returned'.value # Null) =>
                  /\ returned'.value = sessions[sessionId]
                  /\ sessions'[sessionId] = sessions[sessionId]

C10_UpdateSlides == [][C10_SlideStep]_vars

\* updateLastAccessed has pushed the expiration of a session past the one it
\* was created with.
C10_Witness ==
    /\ returned.op = "updateLastAccessed"
    /\ returned.id \in DOMAIN sessions
    /\ LET session == sessions[returned.id]
       IN  /\ DateParse(session.created_at) < now
           /\ session.last_accessed = ToISOString(now)
           /\ DateParse(session.expires_at) = now + sessionTimeout

\* C11: createSession stores a new record whose created_at and last_accessed
\* are the call time and whose expires_at is the call time plus the timeout;
\* a getSession made right afterwards returns that record; the sessions
\* stored before are unchanged.
C11_CreateStep ==
    /\ (returned' # returned /\ returned'.op = "createSession") =>
          LET id == returned'.id
          IN  /\ id \notin DOMAIN sessions
              /\ DOMAIN sessions' = DOMAIN sessions \cup {id}
              /\ sessions'[id].session_id = id
              /\ DateParse(sessions'[id].created_at) = now
              /\ DateParse(sessions'[id].last_accessed) = now
              /\ DateParse(sessions'[id].expires_at) = now + sessionTimeout
              /\ returned'.value = sessions'[id]
              /\ \A k \in DOMAIN sessions : sessions'[k] = sessions[k]
    /\ (/\ returned.op = "createSession"
        /\ returned' # returned /\ returned'.op = "getSession"
        /\ returned'.id = returned.id
        /\ returned.id \in DOMAIN sessions
        /\ DateParse(sessions[returned.id].created_at) = now) =>
          /\ returned'.value = returned.value
          /\ sessions' = sessions

C11_CreateThenGet == [][C11_CreateStep]_vars

\* getSession has just returned the session created at this instant, next to
\* an older session.
C11_Witness ==
    /\ returned.op = "getSession"
    /\ returned.id \in DOMAIN sessions
    /\ returned.value = sessions[returned.id]
    /\ DateParse(sessions[returned.id].created_at) = now
    /\ DateParse(sessions[returned.id].expires_at) = now + sessionTimeout
    /\ \E k \in DOMAIN sessions : DateParse(sessions[k].created_at) < now

\* C12: a session whose expiration time has passed, or that was deleted, is
\* terminal: no call makes it valid again; updateLastAccessed on an expired
\* session that is still stored does not extend its expiration.
C12_ExpiredIsTerminal ==
    [][/\ \A id \in DOMAIN sessions :
             HasExpired(sessions[id], now) =>
                 \/ id \notin DOMAIN sessions'
                 \/ /\ sessions'[id].expires_at = sessions[id].expires_at
                    /\ GetSessionValue(sessions', id, now') = Null
      /\ \A sid \in 1..(nextSid - 1) :
             sid \notin DOMAIN sessions => sid \notin DOMAIN sessions']_vars

\* C13: every request that a session authorizes, on the tool routes and on
\* /mcp/sse, stamps the session's last_accessed with the time of the request
\* and slides its expiration to that time plus the timeout.
C13_AuthorizedRequestSlides ==
    [][(response' # response /\ response'.handled) =>
          /\ response'.id \in DOMAIN sessions'
          /\ DateParse(sessions'[response'.id].last_accessed) = now
          /\ DateParse(sessions'[response'.id].expires_at) = now + sessionTimeout]_vars

\* A session id that names no valid session at time t: none given, not
\* stored (unknown or deleted), or not strictly before its expiration.
InvalidSessionId(map, sessionId, t) ==
    \/ sessionId = NoSessionId
    \/ sessionId \notin DOMAIN map
    \/ t >= DateParse(map[sessionId].expires_at)

\* C14: authenticateSession answers a request with a missing, unknown,
\* deleted or expired session id with 401 and does not invoke the protected
\* handler; the request creates and refreshes no session.
C14_InvalidIsUnauthorized ==
    [][(/\ response' # response
        /\ response'.route = "tools"
        /\ InvalidSessionId(sessions, response'.id, now)) =>
          /\ response'.status = 401
          /\ ~response'.handled
          /\ DOMAIN sessions' \subseteq DOMAIN sessions
          /\ \A k \in DOMAIN sessions' : sessions'[k] = sessions[k]]_vars

\* SpecLive: messages and updates enqueued at any time while connectivity
\* comes and goes.  The 2-second timer keeps firing and every awaited import,
\* updateConversation and persistMessage eventually returns.
NextLive ==
    \/ nextMsgId <= LiveMsgs /\ QueueMessage(TextMessage, "tok", "medium")
    \/ nextUpdId <= LiveUpdates /\ QueueConversationUpdate(1, nextUpdId, "tok")
    \/ \E p \in DOMAIN passes : ConvSplice(p)
    \/ \E p \in DOMAIN passes, ok \in BOOLEAN : ConvResult(p, ok)
    \/ \E p \in DOMAIN passes : MsgSelect(p)
    \/ \E p \in DOMAIN passes, ok \in BOOLEAN : MsgResult(p, ok)
    \/ TimerTick
    \/ OnlineEvent
    \/ OfflineEvent

SpecLive ==
    /\ Init /\ [][NextLive]_vars
    /\ WF_vars(TimerTick)
    /\ WF_vars(\E p \in DOMAIN passes : ConvSplice(p))
    /\ WF_vars(\E p \in DOMAIN passes, ok \in BOOLEAN : ConvResult(p, ok))
    /\ WF_vars(\E p \in DOMAIN passes : MsgSelect(p))
    /\ WF_vars(\E p \in DOMAIN passes, ok \in BOOLEAN : MsgResult(p, ok))

\* The message has left the list, written once successfully (completed) or
\* after maxRetries + 1 failed calls (failed).
LeftTheQueue(id) ==
    IF id \in DOMAIN writes
    THEN /\ id \notin Range(messageQueue)
         /\ stored[id] = 1 \/ (stored[id] = 0 /\ writes[id] = maxRetries + 1)
    ELSE FALSE

\* The update is in the conversation list, or in the batch of a pass that has
\* not finished with it.
UpdateOutstanding(uid) ==
    \/ \E i \in DOMAIN conversationQueue : conversationQueue[i].id = uid
    \/ \E p \in DOMAIN passes :
          /\ passes[p].pc = "conv_call"
          /\ \E k \in passes[p].ui..Len(passes[p].updates) :
                passes[p].updates[k].id = uid

UpdateRemoved(uid) ==
    IF uid \in DOMAIN convWrites
    THEN convWrites[uid] >= 1 /\ ~UpdateOutstanding(uid)
    ELSE FALSE

\* C15: if the queue is eventually online for good, every enqueued message
\* eventually leaves the list as completed or failed and every enqueued
\* conversation update is eventually removed, written or dropped.
C15_EventuallyDrained ==
    <>[]isOnline =>
        /\ \A id \in 1..LiveMsgs : (id \in DOMAIN writes) ~> LeftTheQueue(id)
        /\ \A uid \in 1..LiveUpdates :
              (uid \in DOMAIN convWrites) ~> UpdateRemoved(uid)

\* Everything enqueued is gone: a message completed, a message failed after
\* 4 calls, the update dropped after 4 calls.
C15_Witness ==
    /\ isOnline /\ passes = <<>>
    /\ DOMAIN writes = 1..LiveMsgs
    /\ \A id \in DOMAIN writes : LeftTheQueue(id)
    /\ \E id \in DOMAIN writes : stored[id] = 1
    /\ \E id \in DOMAIN writes : stored[id] = 0
    /\ \A uid \in 1..LiveUpdates : UpdateRemoved(uid) /\ convWrites[uid] = maxRetries + 1

\* ---------------------------------------------------- conversation controller
\* loadMessagesFromAPI's conversion of the store's messages to ChatMessages.
\* The conv field records the conversation a transcript entry belongs to.
ToChatMessage(conversationId, msg) ==
    [id |-> msg.id,
     sender |-> IF msg.sender = "assistant" THEN "tos" ELSE msg.sender,
     conv |-> conversationId]

LoadMessagesFromAPI(store, conversationId) ==
    [k \in DOMAIN store[conversationId] |->
        ToChatMessage(conversationId, store[conversationId][k])]

\* A transcript that keeps what it shows and adds the fetched messages.
ShownAppended(transcript, loaded) == transcript \o loaded

\* setMessages(loadedMessages): the fetched list replaces the transcript.
ShownAfterFetch(transcript, loaded) == loaded

\* The two welcome messages of startNewConversation, built at time t.
WelcomeMessages(t, conversationId) ==
    <<[id |-> t, sender |-> "tos", conv |-> conversationId],
      [id |-> t + 1, sender |-> "tos", conv |-> conversationId]>>

\* A rollback that removes the last entry of the transcript.

\* prev.filter(m => m.id !== id)
WithoutId(transcript, id) == SelectSeq(transcript, LAMBDA m : m.id # id)

\* The store after it accepted a message for the conversation.
StoreAfterWrite(store, conversationId, sender) ==
    [store EXCEPT ![conversationId] =
        Append(@, [id |-> DbId(conversationId, Len(@) + 1), sender |-> sender])]

Call(kind, conversationId, pc, id, sender) ==
    [kind |-> kind, conv |-> conversationId, pc |-> pc, id |-> id, sender |-> sender]

\* switchToConversation up to its first await (conversationManager.getConversation).
SwitchToConversation(conversationId) ==
    /\ messages' = <<>>
    /\ error' = NoError
    /\ isLoading' = TRUE
    /\ calls' = Append(calls, Call("switch", conversationId, "getConversation", 0, "none"))
    /\ started' = started + 1
    /\ UNCHANGED <<activeConversationId, clientNow, remote, resolved, rejected, qvars, svars, dvars>>

\* A lookup whose failure leaves the active conversation id as it is.
GetConversationResultKeepsActive(i, ok) ==
    LET call == calls[i]
    IN  /\ call.kind = "switch" /\ call.pc = "getConversation"
        /\ IF ok
           THEN /\ activeConversationId' = call.conv
                /\ calls' = [calls EXCEPT ![i].pc = "getMessages"]
                /\ UNCHANGED <<messages, error, isLoading, resolved>>
           ELSE /\ messages' = <<>>
                /\ error' = "Conversation not found"
                /\ isLoading' = FALSE
                /\ calls' = RemoveAt(calls, i)
                /\ resolved' = Append(resolved, [fetch |-> "getConversation",
                                                  conv |-> call.conv, ok |-> FALSE])
                /\ UNCHANGED activeConversationId
        /\ UNCHANGED <<clientNow, remote, started, rejected, qvars, svars, dvars>>

\* getConversation returned: the conversation becomes active and the message
\* fetch starts; or the catch and finally blocks run.
GetConversationResult(i, ok) ==
    LET call == calls[i]
    IN  /\ call.kind = "switch" /\ call.pc = "getConversation"
        /\ IF ok
           THEN /\ activeConversationId' = call.conv
                /\ calls' = [calls EXCEPT ![i].pc = "getMessages"]
                /\ UNCHANGED <<messages, error, isLoading, resolved>>
           ELSE /\ activeConversationId' = NoConversation
                /\ messages' = <<>>
                /\ error' = "Conversation not found"
                /\ isLoading' = FALSE
                /\ calls' = RemoveAt(calls, i)
                /\ resolved' = Append(resolved, [fetch |-> "getConversation",
                                                  conv |-> call.conv, ok |-> FALSE])
        /\ UNCHANGED <<clientNow, remote, started, rejected, qvars, svars, dvars>>

\* getMessages returned.
GetMessagesResult(i, ok) ==
    LET call == calls[i]
    IN  /\ call.kind = "switch" /\ call.pc = "getMessages"
        /\ IF ok
           THEN /\ messages' = ShownAfterFetch(messages,
                                    LoadMessagesFromAPI(remote, call.conv))
                /\ UNCHANGED <<activeConversationId, error>>
           ELSE /\ activeConversationId' = NoConversation
                /\ messages' = <<>>
                /\ error' = "Failed to load messages"
        /\ resolved' = Append(resolved, [fetch |-> "getMessages",
                                          conv |-> call.conv, ok |-> ok])
        /\ isLoading' = FALSE
        /\ calls' = RemoveAt(calls, i)
        /\ UNCHANGED <<clientNow, remote, started, rejected, qvars, svars, dvars>>

\* startNewConversation up to its await (createConversationFromWorkspace).
StartNewConversation ==
    /\ messages' = <<>>
    /\ error' = NoError
    /\ isLoading' = TRUE
    /\ calls' = Append(calls, Call("new", NoConversation, "createConversation",
                                   clientNow, "tos"))
    /\ started' = started + 1
    /\ UNCHANGED <<activeConversationId, clientNow, remote, resolved, rejected, qvars, svars, dvars>>

\* createConversationFromWorkspace returned: the welcome messages are shown
\* either way, the new conversation becomes active on success only.
CreateConversationResult(i, ok) ==
    LET call == calls[i]
    IN  /\ call.kind = "new"
        /\ IF ok
           THEN /\ activeConversationId' = CreatedConversation
                /\ messages' = WelcomeMessages(call.id, CreatedConversation)
                /\ UNCHANGED error
           ELSE /\ messages' = WelcomeMessages(call.id, NoConversation)
                /\ error' = "Failed to create conversation"
                /\ UNCHANGED activeConversationId
        /\ isLoading' = FALSE
        /\ calls' = RemoveAt(calls, i)
        /\ UNCHANGED <<clientNow, remote, started, resolved, rejected, qvars, svars, dvars>>

\* A guard that lets every persist call through.
CanPersistAlways(conversationId) == TRUE

\* The guard of persistUserMessage / persistAssistantMessage on the active
\* conversation id (the auth token is taken as present).
CanPersist(conversationId) == conversationId # NoConversation

\* persistUserMessage / persistAssistantMessage up to the await of the direct
\* write: the optimistic append, with Date.now() as the id.
PersistMessage(sender) ==
    /\ IF CanPersist(activeConversationId)
       THEN /\ messages' = Append(messages, [id |-> clientNow, sender |-> sender,
                                             conv |-> activeConversationId])
            /\ calls' = Append(calls, Call("persist", activeConversationId, "persist",
                                          clientNow, sender))
            /\ started' = started + 1
            /\ UNCHANGED rejected
       ELSE /\ rejected' = rejected + 1
            /\ UNCHANGED <<messages, calls, started>>
    /\ UNCHANGED <<activeConversationId, isLoading, error, clientNow, remote,
                   resolved, qvars, svars, dvars>>

\* The direct write (its own retries included) returned.
PersistResult(i, ok) ==
    LET call == calls[i]
    IN  /\ call.kind = "persist"
        /\ IF ok
           THEN /\ remote' = StoreAfterWrite(remote, call.conv,
                                IF call.sender = "tos" THEN "assistant" ELSE call.sender)
                /\ UNCHANGED <<messages, error>>
           ELSE /\ messages' = WithoutId(messages, call.id)
                /\ error' = "Failed to persist message"
                /\ UNCHANGED remote
        /\ calls' = RemoveAt(calls, i)
        /\ UNCHANGED <<activeConversationId, isLoading, clientNow, started,
                       resolved, rejected, qvars, svars, dvars>>

HandleConversationDeleted(deletedConversationId) ==
    /\ IF activeConversationId = deletedConversationId
       THEN /\ activeConversationId' = NoConversation
            /\ messages' = <<>>
            /\ error' = NoError
       ELSE UNCHANGED <<activeConversationId, messages, error>>
    /\ UNCHANGED <<isLoading, calls, clientNow, remote, started, resolved,
                   rejected, qvars, svars, dvars>>

\* A millisecond passes in the browser.
ClientTick ==
    /\ clientNow < MaxClientTime
    /\ clientNow' = clientNow + 1
    /\ UNCHANGED <<activeConversationId, messages, isLoading, error, calls, remote,
                   started, resolved, rejected, qvars, svars, dvars>>

\* SpecController: the controller's operations and their completions in any
\* interleaving.
NextController ==
    \/ started < MaxCalls /\ \E c \in Conversations : SwitchToConversation(c)
    \/ \E i \in DOMAIN calls, ok \in BOOLEAN : GetConversationResult(i, ok)
    \/ \E i \in DOMAIN calls, ok \in BOOLEAN : GetMessagesResult(i, ok)
    \/ started < MaxCalls /\ StartNewConversation
    \/ \E i \in DOMAIN calls, ok \in BOOLEAN : CreateConversationResult(i, ok)
    \/ /\ started < MaxCalls
       /\ CanPersist(activeConversationId) \/ rejected < MaxRejected
       /\ \E sender \in {"user", "tos"} : PersistMessage(sender)
    \/ \E i \in DOMAIN calls, ok \in BOOLEAN : PersistResult(i, ok)
    \/ \E c \in Conversations : HandleConversationDeleted(c)
    \/ ClientTick

SpecController == Init /\ [][NextController]_vars

\* SpecSwitch: switchToConversation calls alone, overlapping.
NextSwitch ==
    \/ started < MaxCalls /\ \E c \in Conversations : SwitchToConversation(c)
    \/ \E i \in DOMAIN calls, ok \in BOOLEAN : GetConversationResult(i, ok)
    \/ \E i \in DOMAIN calls, ok \in BOOLEAN : GetMessagesResult(i, ok)

SpecSwitch == Init /\ [][NextSwitch]_vars

\* C16: the transcript is empty or holds only messages of the conversation
\* named by activeConversationId.
C16_TranscriptOfActive ==
    \A k \in DOMAIN messages : messages[k].conv = activeConversationId

\* The transcript shows messages of two different conversations.
Mixed ==
    \E j, k \in DOMAIN messages : messages[j].conv # messages[k].conv

\* The message fetches that returned a list, in the order they resolved.
ListsFetched == SelectSeq(resolved, LAMBDA r : r.fetch = "getMessages" /\ r.ok)

\* C17 as stated: once the overlapping switchToConversation calls have all
\* resolved, the transcript is the message list of the message fetch that
\* resolved last, and the transcript never holds messages of two conversations.
C17_LastMessageFetchWins ==
    /\ ~Mixed
    /\ (calls = <<>> /\ ListsFetched # <<>>) =>
          messages = LoadMessagesFromAPI(remote, ListsFetched[Len(ListsFetched)].conv)

\* C17, amended: once the overlapping switchToConversation calls have all
\* resolved, the transcript is the message list of the call that finished last
\* when its message fetch succeeded and is empty when that call failed (at its
\* conversation lookup or at its message fetch); the transcript never holds
\* messages of two conversations.
C17_LastToResolveWins ==
    /\ ~Mixed
    /\ (calls = <<>> /\ resolved # <<>>) =>
          LET last == resolved[Len(resolved)]
          IN  messages = IF last.ok
                         THEN LoadMessagesFromAPI(remote, last.conv)
                         ELSE <<>>

\* switchToConversation(1) then switchToConversation(2) before it resolved, and
\* the message fetch of conversation 1 resolved last: its list is shown while
\* activeConversationId names conversation 2.
C17_Witness ==
    /\ calls = <<>>
    /\ Len(resolved) = 2
    /\ resolved[1] = [fetch |-> "getMessages", conv |-> 2, ok |-> TRUE]
    /\ resolved[2] = [fetch |-> "getMessages", conv |-> 1, ok |-> TRUE]
    /\ activeConversationId = 2
    /\ messages = LoadMessagesFromAPI(remote, 1)

\* The transcript after the entry a persist call appended has been taken out
\* and nothing else: one entry carrying the call's id is gone, or none when the
\* transcript no longer shows it.
OnlyTheAppendedRemoved(call) ==
    IF \E k \in DOMAIN messages : messages[k].id = call.id
    THEN \E k \in DOMAIN messages :
            /\ messages[k].id = call.id
            /\ messages' = RemoveAt(messages, k)
    ELSE messages' = messages

C18_PersistStep ==
    \A i \in DOMAIN calls, ok \in BOOLEAN :
        PersistResult(i, ok) =>
            IF ok
            THEN messages' = messages
            ELSE /\ OnlyTheAppendedRemoved(calls[i])
                 /\ error' # NoError

\* C18: when the direct write of persistUserMessage or persistAssistantMessage
\* fails, the optimistically appended message leaves the transcript and the
\* error is set; when it succeeds the message stays; every other transcript
\* entry is unchanged in both cases.
C18_RollbackTouchesOneEntry == [][C18_PersistStep]_vars

\* No two transcript entries carry the same id.
DistinctIds ==
    \A j, k \in DOMAIN messages : messages[j].id = messages[k].id => j = k

\* C18 restricted to transcripts whose entries carry distinct ids.
C18_RollbackWhenIdsDistinct == [][DistinctIds => C18_PersistStep]_vars

\* The persistMessage calls the drain passes have made for message id: one per
\* failed attempt that was put back, and the one in flight or last made.
Invocations(id) ==
    msgs[id].retryCount + (IF msgs[id].status = "pending" THEN 0 ELSE 1)

\* C19: every persistMessage call a drain pass makes for a queued message
\* performs exactly one network write and triggers none after it returned, so
\* a message has as many network writes as the passes made calls for it.
C19_OneWritePerInvocation ==
    \A id \in DOMAIN writes \cap DOMAIN msgs : writes[id] = Invocations(id)

\* C19 for the payloads persistMessage accepts: no write beyond one per call.
C19_NoWriteAfterReturn ==
    \A id \in DOMAIN writes \cap DOMAIN msgs :
        ValidConversationId(msgs[id].messageData) => writes[id] <= Invocations(id)

\* The pass that makes a Remote Writer call for conversation update id in this
\* step has called for no message yet, and the update is the first of the
\* list as it stood when the pass took its batch or the one after the update the
\* pass called for last.
UpdateCalledInOrder(id) ==
    \E p \in DOMAIN passes' :
        LET q == passes'[p]
        IN  /\ q.pc = "conv_call"
            /\ q.mi = 0 /\ q.pendingMessages = <<>>
            /\ q.updates[q.ui].id = id
            /\ IF q.ui = 1
               THEN q.updates = SubSeq(conversationQueue, 1, Len(q.updates))
               ELSE /\ p \in DOMAIN passes
                    /\ passes[p].pc = "conv_call"
                    /\ passes[p].updates = q.updates
                    /\ q.ui = passes[p].ui + 1

\* The pass that makes a Remote Writer call for message id in this step has
\* left its conversation updates behind, and the message is the first pending
\* one of the list or the next pending one after the message the pass called
\* for last.
MessageCalledInOrder(id) ==
    \E p \in DOMAIN passes' :
        LET q == passes'[p]
        IN  /\ q.pc = "msg_call"
            /\ q.updates = <<>>
            /\ q.pendingMessages[q.mi] = id
            /\ IF q.mi = 1
               THEN q.pendingMessages =
                        SubSeq(PendingInOrder, 1, Len(q.pendingMessages))
               ELSE /\ p \in DOMAIN passes
                    /\ passes[p].pc = "msg_call"
                    /\ passes[p].pendingMessages = q.pendingMessages
                    /\ q.mi = passes[p].mi + 1

C20_CallStep ==
    /\ \A id \in DOMAIN convWrites \cap DOMAIN convWrites' :
          convWrites'[id] # convWrites[id] => UpdateCalledInOrder(id)
    /\ \A id \in DOMAIN writes \cap DOMAIN writes' :
          writes'[id] # writes[id] => MessageCalledInOrder(id)

\* C20: within one drain pass every Remote Writer call for a conversation
\* update is made before the first call for a message, and the updates and the
\* messages are each called for in list order.
C20_UpdatesThenMessagesInOrder == [][C20_CallStep]_vars

\* All six updates and some messages were enqueued; the first pass has called
\* for its five updates, in order, and is now at its second message.
C20_Witness ==
    /\ nextUpdId = BatchUpdates + 1
    /\ \A id \in 1..batchSize : convWrites[id] = 1
    /\ convWrites[BatchUpdates] = 0
    /\ \E p \in DOMAIN passes :
          /\ passes[p].pc = "msg_call"
          /\ passes[p].mi = 2
          /\ writes[passes[p].pendingMessages[1]] = 1
          /\ writes[passes[p].pendingMessages[2]] = 1

\* The dynamic import a pass waits for is rejected (the chunk cannot be
\* loaded): processConversationUpdates or processMessages throws before it
\* touched a list, processQueue's catch logs, and its finally block runs.
ImportFails(p) ==
    /\ passes[p].pc \in {"import_conv", "import_msg"}
    /\ passes' = RemoveAt(passes, p)
    /\ isProcessing' = FALSE
    /\ storage' = SaveToStorage(msgs, messageQueue, conversationQueue)
    /\ UNCHANGED <<svars, cvars, dvars, msgs, messageQueue, conversationQueue, isOnline, timers,
                   writes, stored, convWrites, nextMsgId, nextUpdId, restarts, lastCall,
                   offlineEnq>>

\* SpecThrow: the queue and its drain pass, with passes that throw.
NextThrow ==
    \/ /\ nextMsgId <= MaxMsgs
       /\ \E p \in Priorities : QueueMessage(TextMessage, "tok", p)
    \/ /\ nextUpdId <= MaxUpdates
       /\ QueueConversationUpdate(1, nextUpdId, "tok")
    \/ PassStep
    \/ \E p \in DOMAIN passes : ImportFails(p)
    \/ TimerTick

SpecThrow == Init /\ [][NextThrow]_vars

\* After a failed write for message pendingMessages[mi] the pass calls for the
\* next message of its batch, or ends when that was the last one; the failed
\* message changed in status and retryCount only.
BatchGoesOnAfterMessage(p) ==
    LET pass == passes[p]
        id == pass.pendingMessages[pass.mi]
    IN  /\ IF pass.mi < Len(pass.pendingMessages)
           THEN /\ p \in DOMAIN passes'
                /\ passes'[p].pc = "msg_call"
                /\ passes'[p].pendingMessages = pass.pendingMessages
                /\ passes'[p].mi = pass.mi + 1
                /\ msgs'[passes'[p].pendingMessages[passes'[p].mi]].status = "processing"
                /\ isProcessing'
           ELSE /\ passes' = RemoveAt(passes, p)
                /\ ~isProcessing'
        /\ id \in DOMAIN msgs' =>
              /\ msgs'[id] = [msgs[id] EXCEPT !.retryCount = msgs'[id].retryCount,
                                              !.status = msgs'[id].status]
              /\ IF msgs[id].retryCount < maxRetries
                 THEN /\ msgs'[id].status = "pending"
                      /\ msgs'[id].retryCount = msgs[id].retryCount + 1
                 ELSE /\ msgs'[id].status = "failed"
                      /\ msgs'[id].retryCount = msgs[id].retryCount
        /\ id \notin DOMAIN msgs' => msgs[id].retryCount = maxRetries

\* After a failed write for update updates[ui] the pass calls for the next
\* update of its batch, or goes on to the messages; the failed update is back
\* in the list with one more retry, or dropped after its last one.
BatchGoesOnAfterUpdate(p) ==
    LET pass == passes[p]
        u == pass.updates[pass.ui]
    IN  /\ p \in DOMAIN passes'
        /\ IF pass.ui < Len(pass.updates)
           THEN /\ passes'[p].pc = "conv_call"
                /\ passes'[p].updates = pass.updates
                /\ passes'[p].ui = pass.ui + 1
                /\ convWrites'[pass.updates[pass.ui + 1].id] =
                      convWrites[pass.updates[pass.ui + 1].id] + 1
           ELSE passes'[p].pc = "import_msg"
        /\ isProcessing'
        /\ conversationQueue' =
              IF u.retryCount < maxRetries
              THEN Append(conversationQueue, [u EXCEPT !.retryCount = u.retryCount + 1])
              ELSE conversationQueue

C21_FailureStep ==
    \A p \in DOMAIN passes :
        /\ MsgResult(p, FALSE) => BatchGoesOnAfterMessage(p)
        /\ ConvResult(p, FALSE) => BatchGoesOnAfterUpdate(p)

\* this.isProcessing is true exactly while a pass is suspended.
FlagFollowsPass == isProcessing <=> passes # <<>>

\* C21: a failed write for one item never aborts the batch: the pass goes on to
\* every remaining item it selected, the failed item only has its status and
\* retryCount updated, and isProcessing is false once the pass has ended, also
\* when the pass itself threw.
C21_FailureNeverAborts == []FlagFollowsPass /\ [][C21_FailureStep]_vars

\* The write for the first message of a batch of two failed: the message is
\* pending again with retryCount 1 and the pass is at the second message.
C21_Witness ==
    /\ \E p \in DOMAIN passes :
          /\ passes[p].pc = "msg_call"
          /\ passes[p].mi = 2
          /\ msgs[passes[p].pendingMessages[1]].status = "pending"
          /\ msgs[passes[p].pendingMessages[1]].retryCount = 1
          /\ writes[passes[p].pendingMessages[1]] = 1
          /\ stored[passes[p].pendingMessages[1]] = 0

\* The status changes a message may go through, with what they do to retryCount.
AllowedTransition(old, new) ==
    \/ /\ old.status = "pending" /\ new.status = "processing"
       /\ new.retryCount = old.retryCount
    \/ /\ old.status = "processing" /\ new.status = "completed"
       /\ new.retryCount = old.retryCount
    \/ /\ old.status = "processing" /\ new.status = "pending"
       /\ new.retryCount = old.retryCount + 1
    \/ /\ old.status = "processing" /\ new.status = "failed"
       /\ new.retryCount = old.retryCount

C22_StatusStep ==
    \A id \in DOMAIN msgs \cap DOMAIN msgs' :
        /\ msgs'[id].status # msgs[id].status => AllowedTransition(msgs[id], msgs'[id])
        /\ msgs'[id].status = msgs[id].status =>
              msgs'[id].retryCount = msgs[id].retryCount
        /\ msgs'[id].retryCount >= msgs[id].retryCount

\* C22: the status of a message only goes pending -> processing,
\* processing -> completed, processing -> pending (retryCount one more) and
\* processing -> failed; completed and failed are never left and retryCount
\* never decreases.
C22_StatusTransitions == [][C22_StatusStep]_vars

\* A message has been retried three times and has failed for good, while the
\* pass is at the next message of its batch.
C22_Witness ==
    \E p \in DOMAIN passes :
        /\ passes[p].pc = "msg_call"
        /\ passes[p].mi = 2
        /\ msgs[passes[p].pendingMessages[1]].status = "failed"
        /\ msgs[passes[p].pendingMessages[1]].retryCount = maxRetries
        /\ msgs[passes[p].pendingMessages[2]].status = "processing"

\* SpecUpdates: conversation updates alone, enqueued before and during the
\* passes that write them, and writes that fail.
NextUpdates ==
    \/ /\ nextUpdId <= QueuedUpdates
       /\ QueueConversationUpdate(1, nextUpdId, "tok")
    \/ \E p \in DOMAIN passes : ConvSplice(p)
    \/ \E p \in DOMAIN passes, ok \in BOOLEAN : ConvResult(p, ok)
    \/ \E p \in DOMAIN passes : MsgSelect(p)
    \/ TimerTick
    \/ OnlineEvent

SpecUpdates == Init /\ [][NextUpdates]_vars

\* The update a suspended pass waits for.
CurrentUpdate(pass) == pass.updates[pass.ui]

\* The write for update uid returns in this step, with success or failure.
WriteReturns(uid, ok) ==
    \E p \in DOMAIN passes :
        /\ passes[p].pc = "conv_call"
        /\ CurrentUpdate(passes[p]).id = uid
        /\ ConvResult(p, ok)

C23_UpdateStep ==
    \A uid \in DOMAIN convWrites :
        /\ (UpdateOutstanding(uid) /\ ~UpdateOutstanding(uid)') =>
              \/ WriteReturns(uid, TRUE)
              \/ WriteReturns(uid, FALSE) /\ convWrites[uid] = maxRetries + 1
        /\ WriteReturns(uid, TRUE) => ~UpdateOutstanding(uid)'
        /\ WriteReturns(uid, FALSE) =>
              \E p \in DOMAIN passes :
                  LET u == CurrentUpdate(passes[p])
                  IN  /\ u.id = uid
                      /\ IF u.retryCount < 3
                         THEN /\ conversationQueue' =
                                    Append(conversationQueue,
                                           [u EXCEPT !.retryCount = u.retryCount + 1])
                              /\ UpdateOutstanding(uid)'
                         ELSE /\ conversationQueue' = conversationQueue
                              /\ ~UpdateOutstanding(uid)'
                              /\ convWrites[uid] = 4

\* C23: a conversation update leaves the queue (the list and the batch of the
\* pass that took it) exactly when its write succeeds or its 4th write fails;
\* a failed write with retryCount < 3 puts it back at the tail with
\* retryCount + 1; it is handed to the Remote Writer at most 4 times.
C23_UpdateLifecycle ==
    /\ [](\A uid \in DOMAIN convWrites : convWrites[uid] <= 4)
    /\ [][C23_UpdateStep]_vars

\* Update 1 failed while update 2 was waiting in the list, so it is back
\* behind update 2 with retryCount 1; later its 4th write failed as well.
C23_Witness ==
    /\ DOMAIN convWrites = 1..QueuedUpdates
    /\ convWrites[1] = maxRetries + 1
    /\ ~UpdateOutstanding(1)
    /\ \E i \in DOMAIN conversationQueue :
          conversationQueue[i].id = 2 /\ conversationQueue[i].retryCount >= 1

\* SpecTokens: items enqueued under the anonymous or the signed-in token, and
\* updateAuthTokens called before, during and after the passes that write them.
NextTokens ==
    \/ /\ nextMsgId <= TokenMsgs
       /\ \E t \in Tokens : QueueMessage(TextMessage, t, "medium")
    \/ /\ nextUpdId <= TokenUpdates
       /\ \E t \in Tokens : QueueConversationUpdate(1, nextUpdId, t)
    \/ \E p \in DOMAIN passes : ConvSplice(p)
    \/ \E p \in DOMAIN passes : ConvResult(p, FALSE)
    \/ \E p \in DOMAIN passes : MsgSelect(p)
    \/ \E p \in DOMAIN passes : MsgResult(p, TRUE)
    \/ \E oldToken \in {NoToken, "anon"} : UpdateAuthTokens(oldToken, "tok")
    \/ TimerTick
    \/ OnlineEvent

SpecTokens == Init /\ [][NextTokens]_vars

\* The item as updateAuthTokens(oldToken, newToken) must leave it.
Rewritten(item, oldToken, newToken) ==
    IF oldToken = NoToken \/ item.authToken = oldToken
    THEN [item EXCEPT !.authToken = newToken]
    ELSE item

\* The two lists after updateAuthTokens(oldToken, newToken): same items in the
\* same order, the matching ones with the new token, and a drain in flight
\* when the queue is online.
ListsRewritten(oldToken, newToken) ==
    /\ messageQueue' = messageQueue
    /\ \A id \in Range(messageQueue) :
          msgs'[id] = Rewritten(msgs[id], oldToken, newToken)
    /\ DOMAIN conversationQueue' = DOMAIN conversationQueue
    /\ \A i \in DOMAIN conversationQueue :
          conversationQueue'[i] = Rewritten(conversationQueue[i], oldToken, newToken)
    /\ isOnline => passes' # <<>> /\ isProcessing'

\* The conversation updates a pass has spliced out of the list and not
\* finished with, after updateAuthTokens(oldToken, newToken).
BatchRewritten(oldToken, newToken) ==
    \A p \in DOMAIN passes :
        passes[p].pc = "conv_call" =>
            \A k \in passes[p].ui..Len(passes[p].updates) :
                passes'[p].updates[k] =
                    Rewritten(passes[p].updates[k], oldToken, newToken)

\* C24: updateAuthTokens(old, new) sets the token to new on exactly the queued
\* messages and conversation updates whose token is old (on all of them when
\* old is null), changes nothing else of any item, keeps the list order, and
\* triggers a drain if the queue is online.
C24_TokensRewritten ==
    [][\A oldToken \in {NoToken} \cup Tokens, newToken \in Tokens :
          UpdateAuthTokens(oldToken, newToken) =>
              /\ ListsRewritten(oldToken, newToken)
              /\ BatchRewritten(oldToken, newToken)]_vars

\* C24 for the items that are in this.messageQueue and this.conversationQueue
\* when updateAuthTokens is called.
C24_ListItemsRewritten ==
    [][\A oldToken \in {NoToken} \cup Tokens, newToken \in Tokens :
          UpdateAuthTokens(oldToken, newToken) =>
              ListsRewritten(oldToken, newToken)]_vars

\* queueMessage returned in this step: the new item is pending with
\* retryCount 0, a drain has started iff the queue is online and none was in
\* flight, and no existing item changed.
MessageEnqueued ==
    /\ msgs'[nextMsgId].status = "pending"
    /\ msgs'[nextMsgId].retryCount = 0
    /\ nextMsgId \in Range(messageQueue')
    /\ SelectSeq(messageQueue', LAMBDA id : id # nextMsgId) = messageQueue
    /\ \A id \in DOMAIN msgs : msgs'[id] = msgs[id]
    /\ conversationQueue' = conversationQueue
    /\ IF isOnline /\ passes = <<>>
       THEN passes' = <<NewPass>> /\ isProcessing'
       ELSE passes' = passes /\ isProcessing' = isProcessing

\* queueConversationUpdate returned in this step: the new update is the last
\* of the list with retryCount 0, no drain has started and no existing item
\* changed.
UpdateEnqueued ==
    /\ Len(conversationQueue') = Len(conversationQueue) + 1
    /\ SubSeq(conversationQueue', 1, Len(conversationQueue)) = conversationQueue
    /\ conversationQueue'[Len(conversationQueue')].id = nextUpdId
    /\ conversationQueue'[Len(conversationQueue')].retryCount = 0
    /\ msgs' = msgs /\ messageQueue' = messageQueue
    /\ passes' = passes /\ isProcessing' = isProcessing

C25_EnqueueStep ==
    /\ nextMsgId' # nextMsgId => MessageEnqueued
    /\ nextUpdId' # nextUpdId => UpdateEnqueued

\* C25: queueMessage creates the item pending with retryCount 0 and starts a
\* drain at once iff the queue is online and no drain is in flight;
\* queueConversationUpdate appends at the tail with retryCount 0 and never
\* starts a drain; neither changes an existing item.
C25_EnqueueEffects == [][C25_EnqueueStep]_vars

\* The first message was enqueued online and its drain is in flight; the
\* second message and the update were enqueued behind it without a new drain.
C25_Witness ==
    /\ isOnline
    /\ Len(passes) = 1
    /\ passes[1].pc = "msg_call"
    /\ passes[1].pendingMessages = <<1>>
    /\ 2 \in Range(messageQueue)
    /\ msgs[2].status = "pending" /\ msgs[2].retryCount = 0
    /\ Len(conversationQueue) = 1
    /\ conversationQueue[1].retryCount = 0
    /\ convWrites[conversationQueue[1].id] = 0

\* C26: after every mutation of the message list or the conversation-update
\* list the copy in local storage equals the lists in memory, so whenever the
\* process could stop the stored lists describe all outstanding work.
C26_StorageMirrorsLists ==
    (storage # NoStorage \/ messageQueue # <<>> \/ conversationQueue # <<>>) =>
        storage = SaveToStorage(msgs, messageQueue, conversationQueue)

\* The weaker half of C26: every update not yet written or dropped is among
\* the stored updates, and every message not yet written or failed is among
\* the stored messages with the status that lets a later pass take it.
C26_OutstandingWorkStored ==
    /\ \A uid \in DOMAIN convWrites :
          UpdateOutstanding(uid) =>
              \E i \in DOMAIN LoadedConversations(storage) :
                  LoadedConversations(storage)[i].id = uid
    /\ \A id \in Range(messageQueue) :
          msgs[id].status \in {"pending", "processing"} =>
              \E i \in DOMAIN LoadedMessages(storage) :
                  /\ LoadedMessages(storage)[i].id = id
                  /\ LoadedMessages(storage)[i].status = "pending"

\* SpecConnectivity: connectivity changes around every trigger of a drain.
\* Update writes succeed, and of a batch of messages only the first write fails.
NextConnectivity ==
    \/ nextMsgId <= MaxMsgs /\ QueueMessage(TextMessage, "anon", "medium")
    \/ nextUpdId <= MaxUpdates /\ QueueConversationUpdate(1, nextUpdId, "anon")
    \/ \E p \in DOMAIN passes : ConvSplice(p)
    \/ \E p \in DOMAIN passes : ConvResult(p, TRUE)
    \/ \E p \in DOMAIN passes : MsgSelect(p)
    \/ \E p \in DOMAIN passes : MsgResult(p, TRUE)
    \/ \E p \in DOMAIN passes : passes[p].mi = 1 /\ MsgResult(p, FALSE)
    \/ TimerTick
    \/ ForceProcess
    \/ UpdateAuthTokens(NoToken, "tok")
    \/ OnlineEvent
    \/ OfflineEvent

SpecConnectivity == Init /\ [][NextConnectivity]_vars

\* Everything of the queue but the connectivity flag (and the record of the
\* latest processQueue call).
QueueButFlag ==
    <<msgs, messageQueue, conversationQueue, isProcessing, storage, passes, timers,
      writes, stored, convWrites, nextMsgId, nextUpdId>>

\* A pass in flight goes on in this step as it would online: a result for
\* one item is followed by the call for the next item of the batch.
PassGoesOn(p) ==
    LET pass == passes[p]
    IN  /\ (pass.pc = "msg_call" /\ pass.mi < Len(pass.pendingMessages)
              /\ \E ok \in BOOLEAN : MsgResult(p, ok)) =>
              /\ passes'[p].pc = "msg_call" /\ passes'[p].mi = pass.mi + 1
              /\ writes'[pass.pendingMessages[pass.mi + 1]] =
                    writes[pass.pendingMessages[pass.mi + 1]] + 1
        /\ (pass.pc = "conv_call" /\ pass.ui < Len(pass.updates)
              /\ \E ok \in BOOLEAN : ConvResult(p, ok)) =>
              /\ passes'[p].pc = "conv_call" /\ passes'[p].ui = pass.ui + 1
              /\ convWrites'[pass.updates[pass.ui + 1].id] =
                    convWrites[pass.updates[pass.ui + 1].id] + 1

C27_ConnectivityStep ==
    /\ (isOnline /\ ~isOnline') => UNCHANGED QueueButFlag
    /\ (~isOnline /\ ~isOnline') =>
          /\ Len(passes') <= Len(passes)
          /\ isProcessing' => isProcessing
          /\ \A p \in DOMAIN passes : PassGoesOn(p)
    /\ (~isOnline /\ isOnline') =>
          /\ passes' = IF passes = <<>> THEN <<NewPass>> ELSE passes
          /\ isProcessing'
          /\ UNCHANGED <<msgs, messageQueue, conversationQueue, storage>>

\* C27: going offline only clears the online flag; a pass in flight goes on
\* through its batch, and no new pass starts (timer tick, enqueue,
\* forceProcess, updateAuthTokens) until the online event, which sets the flag
\* and starts a drain if none is in flight.
C27_OfflineOnlyFlipsFlag == [][C27_ConnectivityStep]_vars

\* Message 2 was enqueued offline while a pass was suspended, no online event
\* has fired since, and the pass has gone on to call for message 2.
C27_Witness ==
    /\ ~isOnline
    /\ 2 \in DOMAIN offlineEnq
    /\ offlineEnq[2] = "busy"
    /\ Len(passes) = 1
    /\ passes[1].pc = "msg_call"
    /\ passes[1].pendingMessages = <<1, 2>>
    /\ passes[1].mi = 2
    /\ writes[2] = 1

\* ------------------------------------------------- the direct-write path
\* A backoff that grows by one base delay per attempt.
DelayLinear(retryCount) == retryDelay * (retryCount + 1)

\* persistMessage's backoff: this.retryDelay * Math.pow(2, retryCount).
Delay(retryCount) == retryDelay * 2 ^ retryCount

\* persistMessage(messageData, authToken, {immediate: true}) is called: the
\* validation rejects the payload at once, or the first fetch is issued.
PersistImmediate(messageData) ==
    /\ direct.pc \in {"idle", "returned"}
    /\ IF ValidConversationId(messageData)
       THEN /\ direct' = [pc |-> "fetch", messageData |-> messageData,
                          retryCount |-> 0, due |-> 0, result |-> "none"]
            /\ attempts' = <<directNow>>
       ELSE /\ direct' = [pc |-> "returned", messageData |-> messageData,
                          retryCount |-> 0, due |-> 0, result |-> "failure"]
            /\ attempts' = <<>>
    /\ failures' = <<>>
    /\ UNCHANGED <<directNow, qvars, svars, cvars>>

\* The fetch of the running invocation resolved: success is returned, or the
\* catch block waits for the backoff delay, or returns failure after the last
\* retry.
DirectFetchResult(ok) ==
    /\ direct.pc = "fetch"
    /\ IF ok
       THEN /\ direct' = [direct EXCEPT !.pc = "returned", !.result = "success"]
            /\ UNCHANGED failures
       ELSE /\ failures' = Append(failures, directNow)
            /\ direct' =
                  IF direct.retryCount < retryAttempts
                  THEN [direct EXCEPT !.pc = "wait",
                                      !.due = directNow + Delay(direct.retryCount)]
                  ELSE [direct EXCEPT !.pc = "returned", !.result = "failure"]
    /\ UNCHANGED <<attempts, directNow, qvars, svars, cvars>>

\* The setTimeout of the backoff fires, not before its delay has passed: the
\* recursive persistMessage call with retryCount + 1 issues the next fetch.
DirectTimerFires ==
    /\ direct.pc = "wait"
    /\ directNow >= direct.due
    /\ direct' = [direct EXCEPT !.pc = "fetch", !.retryCount = @ + 1]
    /\ attempts' = Append(attempts, directNow)
    /\ UNCHANGED <<failures, directNow, qvars, svars, cvars>>

DirectTick ==
    /\ directNow < MaxDirectTime
    /\ directNow' = directNow + retryDelay
    /\ UNCHANGED <<direct, attempts, failures, qvars, svars, cvars>>

\* SpecDirect: direct writes next to a queue that holds a message.
NextDirect ==
    \/ \E d \in MessageDatas : PersistImmediate(d)
    \/ \E ok \in BOOLEAN : DirectFetchResult(ok)
    \/ DirectTimerFires
    \/ DirectTick
    \/ nextMsgId <= WriterMsgs /\ ~isOnline /\ QueueMessage(TextMessage, "tok", "medium")

SpecDirect == Init /\ [][NextDirect]_vars

\* Attempt k + 1 of the call follows the failure of attempt k by at least
\* 1 s, 2 s, 4 s for k = 1, 2, 3.
BackoffKept ==
    \A k \in DOMAIN attempts :
        k > 1 => /\ k - 1 \in DOMAIN failures
                 /\ attempts[k] >= failures[k - 1] + 1000 * 2 ^ (k - 2)

\* What the call has returned, for a payload that passes the validation.
ReturnedAsExpected ==
    (direct.pc = "returned" /\ ValidConversationId(direct.messageData)) =>
        /\ direct.result = "success" =>
              Len(failures) = Len(attempts) - 1
        /\ direct.result = "failure" =>
              Len(attempts) = 4 /\ Len(failures) = 4

\* While the call runs: every attempt but the running one has failed.
RunningAsExpected ==
    /\ direct.pc = "fetch" => Len(failures) = Len(attempts) - 1
    /\ direct.pc = "wait" => Len(failures) = Len(attempts)

C28_DirectState ==
    /\ Len(attempts) <= 4
    /\ BackoffKept
    /\ ReturnedAsExpected
    /\ RunningAsExpected

\* C28: the direct-write path makes at most 4 write attempts, waits 1 s, 2 s
\* and 4 s before the 2nd, 3rd and 4th, returns success as soon as an attempt
\* succeeds and failure only after all 4 have failed, and never touches the
\* queue.
C28_DirectWriteBackoff ==
    /\ []C28_DirectState
    /\ [][dvars' # dvars => UNCHANGED qvars]_vars

\* All four attempts of a call failed, 1 s, 2 s and 4 s apart, while a message
\* sat in the queue untouched.
C28_Witness ==
    /\ direct.pc = "returned" /\ direct.result = "failure"
    /\ attempts = <<0, 1000, 3000, 7000>>
    /\ failures = <<0, 1000, 3000, 7000>>
    /\ messageQueue = <<1>>
    /\ msgs[1].status = "pending" /\ writes[1] = 0

\* ------------------------------------------------- requests turned away
\* Payloads without a valid positive conversation id: the key is missing,
\* or its value is 0 or negative.
RejectedPayloads ==
    {[tool_data |-> Undefined],
     [conversation_id |-> Number(0), tool_data |-> Undefined],
     [conversation_id |-> Number(0 - 1), tool_data |-> Undefined]}

\* SpecReject: persistence requests with and without a valid conversation id,
\* on the direct path, on the queued path and at the controller.
NextReject ==
    \/ \E d \in RejectedPayloads \cup {TextMessage} : PersistImmediate(d)
    \/ \E ok \in BOOLEAN : DirectFetchResult(ok)
    \/ /\ nextMsgId <= WriterMsgs
       /\ \E d \in RejectedPayloads : QueueMessage(d, "tok", "medium")
    \/ \E p \in DOMAIN passes : ConvSplice(p)
    \/ \E p \in DOMAIN passes : MsgSelect(p)
    \/ \E p \in DOMAIN passes : MsgResult(p, FALSE)
    \/ TimerTick
    \/ OnlineEvent
    \/ started < MaxCalls /\ StartNewConversation
    \/ \E i \in DOMAIN calls, ok \in BOOLEAN : CreateConversationResult(i, ok)
    \/ /\ started < MaxCalls
       /\ CanPersist(activeConversationId) \/ rejected < MaxRejected
       /\ \E sender \in {"user", "tos"} : PersistMessage(sender)
    \/ \E i \in DOMAIN calls, ok \in BOOLEAN : PersistResult(i, ok)

SpecReject == Init /\ [][NextReject]_vars

\* persistMessage on the direct path with a rejected payload: it has returned
\* failure, with no fetch and no backoff timer.
DirectRejected ==
    ~ValidConversationId(direct.messageData) =>
        /\ direct.pc \in {"idle", "returned"}
        /\ direct.pc = "returned" => direct.result = "failure"
        /\ attempts = <<>>
        /\ failures = <<>>

\* persistMessage called by a pass with a rejected payload: no fetch, no
\* retry timer, and the pass is told it failed.
QueuedRejected ==
    \A id \in DOMAIN msgs :
        ~ValidConversationId(msgs[id].messageData) =>
            /\ writes[id] = 0
            /\ stored[id] = 0
            /\ \A t \in BagToSet(timers) : t.id # id
            /\ msgs[id].status # "completed"

\* A persist call of the controller exists only for an active conversation.
ControllerRejected ==
    \A i \in DOMAIN calls :
        calls[i].kind = "persist" => calls[i].conv # NoConversation

C29_RejectStep ==
    rejected' # rejected =>
        /\ activeConversationId = NoConversation
        /\ UNCHANGED <<messages, calls, remote, error, started>>

GetSessionFrame(sessionId) ==
    IF sessionId \notin DOMAIN sessions
    THEN sessions' = sessions /\ returned'.value = Null
    ELSE IF returned'.value # Null
         THEN /\ sessions' = sessions
              /\ returned'.value = sessions[sessionId]
         ELSE /\ now > DateParse(sessions[sessionId].expires_at)
              /\ DOMAIN sessions' = DOMAIN sessions \ {sessionId}
              /\ \A other \in DOMAIN sessions' : sessions'[other] = sessions[other]

\* C30: getSession never changes last_accessed or the expiration of a session
\* it returns; when it finds the session expired it deletes that record; it
\* never touches another session.
C30_GetSessionFrame ==
    [][\A sessionId \in 1..MaxSessions :
          (GetSession(sessionId) \/ McpSse(sessionId)) =>
              GetSessionFrame(sessionId)]_vars

\* getSession found session 1 expired and removed it; session 2, expired as
\* well, is still in the store as it was created.
C30_Witness ==
    /\ returned = [op |-> "getSession", id |-> 1, value |-> Null]
    /\ DOMAIN sessions = {2}
    /\ HasExpired(sessions[2], now)
    /\ sessions[2].last_accessed = sessions[2].created_at


\* The expiration of every session that stays in the store is, after the
\* step, at or after what it was before the step.
ExpirationNotBackward ==
    \A sessionId \in DOMAIN sessions \cap DOMAIN sessions' :
        DateParse(sessions'[sessionId].expires_at) >=
            DateParse(sessions[sessionId].expires_at)

\* C31: with a non-decreasing clock, the expiration timestamp of a stored
\* session never moves backward under any sequence of createSession,
\* getSession, updateLastAccessed, deleteSession and sweep calls (and of the
\* requests the server makes them for).
C31_ExpirationMonotonic ==
    [][now' >= now /\ ExpirationNotBackward]_vars

\* Both sessions are stored and were accessed at later instants than their
\* creation: the expiration of each lies sessionTimeout after its last access,
\* and session 2 was accessed after session 1.
C31_Witness ==
    /\ DOMAIN sessions = {1, 2}
    /\ \A id \in {1, 2} :
          /\ DateParse(sessions[id].last_accessed) > DateParse(sessions[id].created_at)
          /\ DateParse(sessions[id].expires_at) =
                 DateParse(sessions[id].last_accessed) + sessionTimeout
    /\ DateParse(sessions[2].expires_at) > DateParse(sessions[1].expires_at)
    /\ returned.op = "updateLastAccessed"


\* What one deleteSession(sessionId) call does: the record is gone and true
\* is returned when it was stored, nothing changes and false is returned when
\* it was not; every other record is as it was.
DeleteSessionFrame(sessionId) ==
    IF sessionId \in DOMAIN sessions
    THEN /\ returned'.value.deleted
         /\ DOMAIN sessions' = DOMAIN sessions \ {sessionId}
         /\ \A other \in DOMAIN sessions' : sessions'[other] = sessions[other]
    ELSE /\ ~returned'.value.deleted
         /\ sessions' = sessions

\* C32: deleteSession(id) returns true and removes the record iff a record
\* with that id was stored, returns false and changes nothing otherwise (a
\* second delete of the same id is a no-op returning false), and never
\* affects other sessions.
C32_DeleteSessionFrame ==
    [][\A sessionId \in 1..MaxSessions :
          DeleteSession(sessionId) => DeleteSessionFrame(sessionId)]_vars

\* Session 1 was created and deleted, and the delete that has just returned
\* false found it gone; session 2 is stored as it was created.
C32_Witness ==
    /\ returned = [op |-> "deleteSession", id |-> 1, value |-> [deleted |-> FALSE]]
    /\ nextSid > 2
    /\ DOMAIN sessions = {2}
    /\ sessions[2].last_accessed = sessions[2].created_at
    /\ ~HasExpired(sessions[2], now)


\* What one sweep leaves: exactly the sessions whose expiration has not passed
\* at the time of the sweep, each record as it was.
SweepFrame ==
    /\ DOMAIN sessions' =
           {id \in DOMAIN sessions : ~(now > DateParse(sessions[id].expires_at))}
    /\ \A id \in DOMAIN sessions' : sessions'[id] = sessions[id]

\* C33: the periodic sweep removes every stored session whose expiration has
\* passed at sweep time, whether or not anyone ever queries it again, and
\* leaves every unexpired session's record unchanged.
C33_SweepRemovesExpired ==
    [][CleanupExpiredSessions => SweepFrame]_vars

\* The sweep has just run with session 1 gone and session 2, never accessed
\* since its creation and exactly at its expiration instant, still stored.
C33_Witness ==
    /\ returned.op = "cleanupExpiredSessions"
    /\ nextSid > 2
    /\ DOMAIN sessions = {2}
    /\ sessions[2].last_accessed = sessions[2].created_at
    /\ now = DateParse(sessions[2].expires_at)


\* The state a switchToConversation call leaves when it ends in its catch and
\* finally blocks.
SwitchFailed ==
    /\ activeConversationId' = NoConversation
    /\ messages' = <<>>
    /\ error' # NoError
    /\ isLoading' = FALSE

\* The pieces of a switchToConversation call: the one up to the first await
\* leaves an empty transcript with the conversation lookup in flight; the
\* lookup's success publishes no message; the message fetch is awaited only
\* after the lookup succeeded, and its success shows the fetched list.
SwitchPieces ==
    /\ \A c \in Conversations :
          SwitchToConversation(c) =>
              /\ messages' = <<>>
              /\ calls'[Len(calls')].pc = "getConversation"
              /\ \A i \in DOMAIN calls : calls'[i] = calls[i]
    /\ \A i \in DOMAIN calls :
          /\ GetConversationResult(i, TRUE) =>
                /\ messages' = messages
                /\ calls'[i].pc = "getMessages"
          /\ GetMessagesResult(i, TRUE) =>
                /\ calls[i].pc = "getMessages"
                /\ messages' = LoadMessagesFromAPI(remote, calls[i].conv)
          /\ GetConversationResult(i, FALSE) => SwitchFailed
          /\ GetMessagesResult(i, FALSE) => SwitchFailed

\* C34: switchToConversation(id) empties the transcript before any fetch is
\* issued and publishes messages only after both the metadata fetch and the
\* message fetch for id succeeded; if either fails, the call ends with
\* activeConversationId = null, an empty transcript, the error set and
\* isLoading false.
C34_SwitchAllOrNothing ==
    [][SwitchPieces]_vars

\* A switch showed a conversation's messages, and a later switch has just
\* failed at its message fetch: nothing is shown and no conversation is active.
C34_Witness ==
    /\ calls = <<>>
    /\ Len(resolved) = 2
    /\ resolved[1].fetch = "getMessages" /\ resolved[1].ok
    /\ resolved[2] = [fetch |-> "getMessages", conv |-> 1, ok |-> FALSE]
    /\ activeConversationId = NoConversation
    /\ messages = <<>>
    /\ error = "Failed to load messages"
    /\ ~isLoading


\* ------------------------------------------------------------------- reload
\* SpecReload: messages are enqueued, drained and the page is reloaded at any
\* point, a pass suspended on a Remote Writer call included.  The timer of the
\* new instance keeps firing and every awaited import or write eventually
\* returns.
ReloadMsgs == 2

NextReload ==
    \/ nextMsgId <= ReloadMsgs /\ QueueMessage(TextMessage, "tok", "medium")
    \/ \E p \in DOMAIN passes : ConvSplice(p)
    \/ \E p \in DOMAIN passes : MsgSelect(p)
    \/ \E p \in DOMAIN passes, ok \in BOOLEAN : MsgResult(p, ok)
    \/ TimerTick
    \/ OnlineEvent
    \/ OfflineEvent
    \/ restarts < MaxRestarts /\ Restart

SpecReload ==
    /\ Init /\ [][NextReload]_vars
    /\ WF_vars(TimerTick)
    /\ WF_vars(\E p \in DOMAIN passes : ConvSplice(p))
    /\ WF_vars(\E p \in DOMAIN passes : MsgSelect(p))
    /\ WF_vars(\E p \in DOMAIN passes, ok \in BOOLEAN : MsgResult(p, ok))

\* The message is in the list of an instance that loaded its lists from
\* storage.
Reloaded(id) == restarts >= 1 /\ id \in Range(messageQueue)

\* A pass is waiting for the Remote Writer's answer for the message.
BeingWritten(id) ==
    \E p \in DOMAIN passes :
        IF passes[p].pc = "msg_call" THEN Current(passes[p]) = id ELSE FALSE

\* The message is completed or failed, or the prune has taken it off the list.
Terminal(id) ==
    IF id \in Range(messageQueue)
    THEN msgs[id].status \in {"completed", "failed"}
    ELSE TRUE

\* The message was loaded with the status 'processing' a save wrote while a
\* pass was waiting for its write: no pass selects it, no prune removes it.
Stranded(id) ==
    /\ restarts >= 1 /\ passes = <<>>
    /\ IF id \in Range(messageQueue) THEN msgs[id].status = "processing" ELSE FALSE

\* C35: after a restart (the queue reloaded from local storage at any point
\* of a previous run, including while a drain pass was suspended on a Remote
\* Writer call), every message in the reloaded list is eventually handed to
\* the Remote Writer or is already terminal, provided the queue is eventually
\* online for good; no reloaded message stays in the list forever without
\* being processed.
C35_ReloadedEventuallyHanded ==
    <>[]isOnline =>
        \A id \in 1..ReloadMsgs :
            Reloaded(id) ~> (BeingWritten(id) \/ Terminal(id))


\* ------------------------------------------------- updates across a reload
\* SpecLoss: updates and a message are enqueued and drained, and the page is
\* reloaded at any point.
LossMsgs == 1
LossUpdates == 2

NextLoss ==
    \/ nextMsgId <= LossMsgs /\ QueueMessage(TextMessage, "tok", "medium")
    \/ nextUpdId <= LossUpdates /\ QueueConversationUpdate(1, nextUpdId, "tok")
    \/ PassStep
    \/ TimerTick
    \/ restarts < MaxRestarts /\ Restart

SpecLoss == Init /\ [][NextLoss]_vars

\* The ids of the updates in a conversation-update list.
UpdateIds(cq) == {cq[i].id : i \in DOMAIN cq}

\* The update is in the conversation-update list a fresh instance would load.
Persisted(uid) == uid \in UpdateIds(LoadedConversations(storage))

\* C36: no conversation update is lost across a restart: at every point of a
\* run, each enqueued update that has neither been written successfully nor
\* been dropped after exhausting its retries (it is in the list, or in flight
\* in a drain pass) is contained in the persisted conversation-update list,
\* and a reload puts it into the list of the new instance.
C36_NoUpdateLost ==
    /\ [](\A uid \in DOMAIN convWrites : UpdateOutstanding(uid) => Persisted(uid))
    /\ [][Restart =>
             \A uid \in DOMAIN convWrites :
                 UpdateOutstanding(uid) => uid \in UpdateIds(conversationQueue')]_vars


\* ------------------------------------------------ calls after a token rewrite
\* An item of the queue, in a list or in the batch of a pass, carries the
\* signed-in token: updateAuthTokens(null, 'tok') has returned.
Retokened ==
    \/ \E id \in Range(messageQueue) : msgs[id].authToken = "tok"
    \/ \E i \in DOMAIN conversationQueue : conversationQueue[i].authToken = "tok"
    \/ \E p \in DOMAIN passes :
          \E k \in DOMAIN passes[p].updates : passes[p].updates[k].authToken = "tok"

\* SpecRetoken: a message and updates are enqueued before sign-in under the
\* anonymous token, updateAuthTokens(null, 'tok') is called at any point of
\* the drain, and nothing is enqueued once an item carries the new token; so
\* every item a pass calls the Remote Writer for after the rewrite was
\* enqueued before it.
RetokenMsgs == 1
RetokenUpdates == 2

NextRetoken ==
    \/ /\ nextMsgId <= RetokenMsgs /\ ~Retokened
       /\ QueueMessage(TextMessage, "anon", "medium")
    \/ /\ nextUpdId <= RetokenUpdates /\ ~Retokened
       /\ QueueConversationUpdate(1, nextUpdId, "anon")
    \/ PassStep
    \/ UpdateAuthTokens(NoToken, "tok")
    \/ TimerTick

SpecRetoken == Init /\ [][NextRetoken]_vars

\* The step calls updateConversation for the update / persistMessage for the
\* message.
UpdateCalled(uid) == convWrites'[uid] = convWrites[uid] + 1

MessageCalled(id) == writes'[id] = writes[id] + 1

\* The authToken argument of the call the step makes.
CallToken == passes'[Len(passes')].token

\* C37: after updateAuthTokens(null, newToken) returns, every later Remote
\* Writer call made by the queue for an item enqueued before that call uses
\* newToken, including items that were in flight in a drain pass when the
\* tokens were rewritten and are retried afterwards.
C37_LaterCallsUseNewToken ==
    [][(/\ Retokened
        /\ \/ \E uid \in DOMAIN convWrites : UpdateCalled(uid)
           \/ \E id \in DOMAIN writes : MessageCalled(id)) =>
              CallToken = "tok"]_vars


\* C38: if every failed Remote Writer attempt stores nothing remotely (no lost
\* acknowledgments), then each queued message is stored in the remote store at
\* most once, and a message the queue marks `failed` was never stored.
C38_StoredAtMostOnce ==
    /\ \A id \in DOMAIN stored : stored[id] <= 1
    /\ \A id \in DOMAIN stored \cap DOMAIN msgs :
          msgs[id].status = "failed" => stored[id] = 0


\* ------------------------------------------------- order of update writes
\* SpecOrder: updates of conversation 1 are enqueued with growing message
\* counts and drained by the timer's passes.  A write may fail only for an
\* update that has not failed before, so no update is ever dropped: an update
\* that was called for and is no longer outstanding was written successfully.
OrderUpdates == 3

NextOrder ==
    \/ nextUpdId <= OrderUpdates /\ QueueConversationUpdate(1, nextUpdId, "tok")
    \/ \E p \in DOMAIN passes : ConvSplice(p)
    \/ \E p \in DOMAIN passes : ConvResult(p, TRUE)
    \/ \E p \in DOMAIN passes :
          /\ passes[p].pc = "conv_call"
          /\ CurrentUpdate(passes[p]).retryCount = 0
          /\ ConvResult(p, FALSE)
    \/ \E p \in DOMAIN passes : MsgSelect(p)
    \/ TimerTick

SpecOrder == Init /\ [][NextOrder]_vars

\* updateConversation was called for the update and the queue has finished
\* with it.
UpdateWritten(uid) == convWrites[uid] >= 1 /\ ~UpdateOutstanding(uid)

\* C39: conversation updates for the same conversation are successfully
\* written to the remote store in the order they were enqueued, across retries
\* and drain passes, so the last successful write for a conversation carries
\* the most recently enqueued message count: when the write of an update
\* succeeds, no update enqueued after it has been written yet.
C39_WrittenInEnqueueOrder ==
    [][\A p \in DOMAIN passes :
          ConvResult(p, TRUE) =>
              \A later \in DOMAIN convWrites :
                  later > CurrentUpdate(passes[p]).id => ~UpdateWritten(later)]_vars


\* ------------------------------------------- enqueueing during a drain pass
\* SpecDuring: the timer starts one drain pass for the updates enqueued before
\* it, and every message is enqueued while that pass is suspended on a Remote
\* Writer call (updateConversation or persistMessage).
DuringMsgs == 3
DuringUpdates == 2

OnRemoteWriterCall ==
    \E p \in DOMAIN passes : passes[p].pc \in {"conv_call", "msg_call"}

NextDuring ==
    \/ /\ nextMsgId <= DuringMsgs /\ OnRemoteWriterCall
       /\ QueueMessage(TextMessage, "tok", "medium")
    \/ /\ nextUpdId <= DuringUpdates /\ passes = <<>>
       /\ QueueConversationUpdate(1, nextUpdId, "tok")
    \/ PassStep
    \/ lastCall = "none" /\ TimerTick

SpecDuring == Init /\ [][NextDuring]_vars

\* The message is in the list after the step as queueMessage created it.
StillPendingUntouched(id) ==
    /\ id \in Range(messageQueue')
    /\ msgs'[id].status = "pending" /\ msgs'[id].retryCount = 0

\* The message was handed to the Remote Writer by the pass: the prune has
\* removed it (completed, or failed for good), or it waits for its retry.
HandledByThePass(id) ==
    \/ id \notin Range(messageQueue')
    \/ msgs'[id].status = "pending" /\ msgs'[id].retryCount >= 1

\* The step in which the pass ends.
PassEnds == passes # <<>> /\ passes' = <<>>

====
